---- MODULE Spec2Model ----
(***************************************************************************)
(* Orchestration core of the network automation backend: the router        *)
(* simulator (RouterSimulator), the automation framework with its bulk     *)
(* operations (NetworkAutomation), the agent/task system (AIAgentSystem,   *)
(* Agent), the memory manager (MemoryManager) and the pipeline manager     *)
(* (PipelineManager).                                                      *)
(*                                                                         *)
(* Texts (configurations, commands, provider replies) are sequences of     *)
(* whitespace-separated tokens; every kind of whitespace is one separator. *)
(* The string tests of the code (includes, match, split) are computed on   *)
(* the tokens.                                                             *)
(***************************************************************************)
EXTENDS Integers, Sequences, FiniteSets, TLC

(***************************************************************************)
(* Bounds of the model                                                     *)
(***************************************************************************)
\* longest list of target device ids handed to a pipeline or bulk operation
MaxTargets == 2
\* number of storeMemory calls the memory workload issues for an agent
MaxStores == 12
\* number of clearShortTermMemory / consolidateMemories calls the workload
\* issues for an agent
MaxResets == 1

\* number of early storeMemory calls with a second text the memory workload
\* issues for an agent
MaxOtherStores == 1

\* number of tasks the task workload creates through createTask
MaxTasks == 2
\* number of executeTask calls the task workload makes, those started by
\* createTask included
MaxExecutions == 2
\* number of connectToDevice calls the registry workload makes
MaxConnects == 2
\* config.rateLimitPerMinute: the requests a client may make in one window
RateLimitPerMinute == 2
\* the request count of an entry up to which the workload sends requests
MaxCount == 4
\* the time up to which the clock is moved on
MaxClock == 180003

\* capacity of the short-term list (storeMemory)
ShortTermCapacity == 10
\* priority from which createTask starts the execution itself
ImmediatePriority == 5

\* null, in a field that otherwise holds a record or a sequence
Null == <<>>
\* null in a field that otherwise holds a string
NullString == "\\null"
Undefined == <<"\\undefined">>

(***************************************************************************)
(* Small helpers on sequences                                              *)
(***************************************************************************)
Range(s) == {s[i] : i \in 1..Len(s)}

SeqsUpTo(S, n) == UNION {[1..k -> S] : k \in 0..n}

Min(a, b) == IF a <= b THEN a ELSE b

\* String.prototype.includes for a one-token needle
Includes1(text, w) == \E i \in 1..Len(text) : text[i] = w

\* String.prototype.includes for a needle of two tokens separated by one space
Includes2(text, w1, w2) ==
    \E i \in 1..Len(text) : i + 1 <= Len(text) /\ text[i] = w1 /\ text[i + 1] = w2

(***************************************************************************)
(* Token classes used by the regular expressions of the code               *)
(***************************************************************************)
\* tokens made of digits and dots only: [\d\.]+ matches the whole token
DottedTokens == {"10.0.0.1", "10.0.0.2", "10.0.1.1", "10.0.2.1", "10.0.9.1",
                 "255.255.255.0", "0.0.0.0", "0", "4"}

\* the prefix of a token matched by [\w\/]+ ("" when the first char is outside)
WordSlashPrefix(tok) ==
    CASE tok \in {"10.0.0.1", "10.0.0.2", "10.0.1.1", "10.0.2.1", "10.0.9.1"} -> "10"
      [] tok = "255.255.255.0" -> "255"
      [] tok = "0.0.0.0" -> "0"
      [] tok = "password-encryption" -> "password"
      [] tok = "exec-timeout" -> "exec"
      [] tok = "!" -> ""
      [] OTHER -> tok

\* the prefix of a token matched by [\w-]+ ("" when the first char is outside)
WordDashPrefix(tok) ==
    CASE tok \in {"10.0.0.1", "10.0.0.2", "10.0.1.1", "10.0.2.1", "10.0.9.1"} -> "10"
      [] tok = "255.255.255.0" -> "255"
      [] tok = "0.0.0.0" -> "0"
      [] tok = "GigabitEthernet0/0" -> "GigabitEthernet0"
      [] tok = "GigabitEthernet0/1" -> "GigabitEthernet0"
      [] tok = "Gig0/1" -> "Gig0"
      [] tok = "Gig0/2" -> "Gig0"
      [] tok = "!" -> ""
      [] OTHER -> tok

(***************************************************************************)
(* Configuration texts                                                     *)
(***************************************************************************)
\* the text createRouter gives a new router: ""
EmptyConfig == <<>>

\* basicConfig of initializeDefaultTopology with its placeholders replaced
BasicConfig(hostname, mainIp, secondaryIp, gateway) ==
    <<"!", "hostname", hostname, "!",
      "interface", "GigabitEthernet0/0", "description", "Main", "Interface",
      "ip", "address", mainIp, "255.255.255.0", "no", "shutdown", "!",
      "interface", "GigabitEthernet0/1", "description", "Secondary", "Interface",
      "ip", "address", secondaryIp, "255.255.255.0", "no", "shutdown", "!",
      "ip", "route", "0.0.0.0", "0.0.0.0", gateway, "!",
      "line", "con", "0", "exec-timeout", "0", "0", "logging", "synchronous", "!",
      "line", "vty", "0", "4", "login", "local", "transport", "input", "ssh", "!",
      "end">>

\* generated configurations the provider may return
CfgSecureUp ==
    <<"hostname", "R9", "service", "password-encryption",
      "enable", "secret", "s3cret",
      "interface", "Gig0/1", "ip", "address", "10.0.9.1", "255.255.255.0",
      "no", "shutdown">>

CfgSecurePlain ==
    <<"service", "password-encryption",
      "interface", "Gig0/2", "ip", "address", "10.0.9.1", "255.255.255.0">>

CfgNoEncryption ==
    <<"hostname", "R9",
      "interface", "Gig0/1", "ip", "address", "10.0.9.1", "255.255.255.0">>

CfgTelnet ==
    <<"service", "password-encryption",
      "line", "vty", "0", "4", "transport", "input", "telnet">>

CfgBadIp ==
    <<"service", "password-encryption",
      "interface", "Gig0/2", "ip", "address", "dhcp">>

CfgEnablePassword ==
    <<"service", "password-encryption", "enable", "password", "cisco">>

\* an interface block that names an interface of the default topology and
\* has no `ip address` line, in a text without a hostname line
CfgDescriptionOnly ==
    <<"interface", "GigabitEthernet0/0", "description", "uplink">>

GeneratedConfigs ==
    {CfgSecureUp, CfgSecurePlain, CfgNoEncryption, CfgTelnet, CfgBadIp,
     CfgEnablePassword, EmptyConfig}


(***************************************************************************)
(* NetworkAutomation.validateConfiguration                                 *)
(***************************************************************************)
\* config.match(/ip address [\d\.]+\s+[\d\.]+/)
MatchIpAddress(text) ==
    \E i \in 1..Len(text) :
        /\ i + 3 <= Len(text)
        /\ text[i] = "ip" /\ text[i + 1] = "address"
        /\ text[i + 2] \in DottedTokens /\ text[i + 3] \in DottedTokens

\* config.match(/interface [\w\/]+/)
MatchInterface(text) ==
    \E i \in 1..Len(text) :
        /\ i + 1 <= Len(text)
        /\ text[i] = "interface" /\ WordSlashPrefix(text[i + 1]) # ""

\* the issues of a configuration text, in the order the code pushes them
ConfigIssues(text) ==
    (IF Includes2(text, "ip", "address") /\ ~MatchIpAddress(text)
        THEN <<"Invalid IP address format">> ELSE <<>>)
    \o (IF Includes1(text, "interface") /\ ~MatchInterface(text)
        THEN <<"Invalid interface format">> ELSE <<>>)
    \o (IF ~Includes2(text, "service", "password-encryption")
        THEN <<"Password encryption not enabled">> ELSE <<>>)
    \o (IF Includes2(text, "enable", "password") /\ ~Includes2(text, "enable", "secret")
        THEN <<"Using 'enable password' instead of 'enable secret'">> ELSE <<>>)
    \o (IF Includes1(text, "telnet") \/ Includes2(text, "input", "telnet")
        THEN <<"Telnet is enabled, which is insecure">> ELSE <<>>)

ValidDespiteIssues(config) ==
    IF config = Undefined
    THEN [valid |-> TRUE, issues |-> <<"TypeError">>]
    ELSE [valid |-> TRUE, issues |-> ConfigIssues(config)]

\* a value that is no string makes config.includes throw; the catch reports it
validateConfiguration(config) ==
    IF config = Undefined
    THEN [valid |-> FALSE, issues |-> <<"TypeError">>]
    ELSE [valid |-> Len(ConfigIssues(config)) = 0, issues |-> ConfigIssues(config)]

(***************************************************************************)
(* RouterSimulator: routers and the facts derived from configuration text  *)
(***************************************************************************)
\* ids of the routers of the default topology, of routers created later,
\* and an id no router ever has
DefaultRouterIds == {"r1", "r2"}
CreatedRouterIds == {"r3"}
UnknownRouterIds == {"rx"}
\* the ids a caller names as targets: a default router, a created one, an
\* unknown one
TargetIds == {"r1", "r3", "rx"}

Iface(name, ip, mask, status) ==
    [name |-> name, ipAddress |-> ip, subnetMask |-> mask, status |-> status]

\* String.prototype.toLowerCase on the tokens that have upper-case letters
Lower(tok) == IF tok = "Interface" THEN "interface" ELSE tok

\* createRouter: the record a new router starts with
NewRouter(name) ==
    [name |-> name, interfaces |-> <<>>,
     runningConfig |-> EmptyConfig, startupConfig |-> EmptyConfig]

\* addInterface without the search for an entry of the same name
AlwaysAppends(interfaces, data) == Append(interfaces, data)

\* addInterface on the interface list: replace the entry of that name or append
addInterface(interfaces, data) ==
    IF \E k \in 1..Len(interfaces) : interfaces[k].name = data.name
    THEN LET existingIndex ==
                 CHOOSE k \in 1..Len(interfaces) :
                     /\ interfaces[k].name = data.name
                     /\ \A j \in 1..(k - 1) : interfaces[j].name # data.name
         IN [interfaces EXCEPT ![existingIndex] = data]
    ELSE Append(interfaces, data)

\* is there a match of /interface\s+([\w\/]+)/i starting at token i
InterfaceAt(text, i) ==
    /\ i + 1 <= Len(text)
    /\ Lower(text[i]) = "interface"
    /\ WordSlashPrefix(text[i + 1]) # ""

\* the starts of the non-overlapping matches that split() finds, from token i on
RECURSIVE InterfaceStarts(_, _)
InterfaceStarts(text, i) ==
    IF i > Len(text) THEN <<>>
    ELSE IF InterfaceAt(text, i)
         THEN <<i>> \o InterfaceStarts(text, i + 2)
         ELSE InterfaceStarts(text, i + 1)

\* the text between the k-th match and the next one (or the end)
InterfaceBlock(text, starts, k) ==
    LET from == starts[k] + 2
        to == IF k < Len(starts) THEN starts[k + 1] - 1 ELSE Len(text)
    IN IF from > to THEN <<>> ELSE SubSeq(text, from, to)

\* interfaceConfig.match(/ip\s+address\s+([\d\.]+)\s+([\d\.]+)/): the first match
IpMatchAt(block, i) ==
    /\ i + 3 <= Len(block)
    /\ block[i] = "ip" /\ block[i + 1] = "address"
    /\ block[i + 2] \in DottedTokens /\ block[i + 3] \in DottedTokens

InterfaceFromBlock(name, block) ==
    LET hits == {i \in 1..Len(block) : IpMatchAt(block, i)}
        first == CHOOSE i \in hits : \A j \in hits : i <= j
        ipAddress == IF hits = {} THEN "" ELSE block[first + 2]
        subnetMask == IF hits = {} THEN "" ELSE block[first + 3]
        status == IF Includes1(block, "shutdown") THEN "down" ELSE "up"
    IN Iface(name, ipAddress, subnetMask, status)

\* the loop over the interface blocks, from the k-th match on
RECURSIVE ApplyInterfaceBlocks(_, _, _, _)
ApplyInterfaceBlocks(interfaces, text, starts, k) ==
    IF k > Len(starts) THEN interfaces
    ELSE ApplyInterfaceBlocks(
             addInterface(interfaces,
                          InterfaceFromBlock(WordSlashPrefix(text[starts[k] + 1]),
                                             InterfaceBlock(text, starts, k))),
             text, starts, k + 1)

\* config.match(/hostname\s+([\w-]+)/): the captured name, or Null
HostnameMatch(text) ==
    LET hits == {i \in 1..Len(text) :
                    /\ i + 1 <= Len(text)
                    /\ text[i] = "hostname"
                    /\ WordDashPrefix(text[i + 1]) # ""}
        first == CHOOSE i \in hits : \A j \in hits : i <= j
    IN IF hits = {} THEN Null ELSE <<WordDashPrefix(text[first + 1])>>

UpdateKeepsRunningConfig(router, config) == router

UpdateAlsoSaves(router, config) ==
    [router EXCEPT !.runningConfig = config, !.startupConfig = config]

\* updateRunningConfig on one router record
updateRunningConfig(router, config) == [router EXCEPT !.runningConfig = config]

\* saveRunningConfigToStartup on one router record
saveRunningConfigToStartup(router) ==
    [router EXCEPT !.startupConfig = router.runningConfig]

\* updateRouterStateFromConfig on one router record
updateRouterStateFromConfig(router, config) ==
    LET hostnameMatch == HostnameMatch(config)
        named == IF hostnameMatch # Null
                 THEN [router EXCEPT !.name = hostnameMatch[1]]
                 ELSE router
    IN [named EXCEPT !.interfaces =
            ApplyInterfaceBlocks(router.interfaces, config,
                                 InterfaceStarts(config, 1), 1)]

\* the routers initializeDefaultTopology leaves behind
DefaultTopology ==
    [id \in DefaultRouterIds |->
        IF id = "r1"
        THEN [name |-> "R1",
              interfaces |-> <<Iface("GigabitEthernet0/0", "10.0.0.1", "255.255.255.0", "up"),
                               Iface("GigabitEthernet0/1", "10.0.1.1", "255.255.255.0", "up")>>,
              runningConfig |-> BasicConfig("R1", "10.0.0.1", "10.0.1.1", "10.0.0.2"),
              startupConfig |-> EmptyConfig]
        ELSE [name |-> "R2",
              interfaces |-> <<Iface("GigabitEthernet0/0", "10.0.0.2", "255.255.255.0", "up"),
                               Iface("GigabitEthernet0/1", "10.0.2.1", "255.255.255.0", "up")>>,
              runningConfig |-> BasicConfig("R2", "10.0.0.2", "10.0.2.1", "10.0.0.1"),
              startupConfig |-> EmptyConfig]]

(***************************************************************************)
(* Completion Provider replies (LLMIntegration.generateConfiguration)      *)
(***************************************************************************)
\* A reply text: `parse` tells what JSON.parse makes of it ("error": it
\* throws and `body` is the raw text; "object": it yields an object with the
\* fields below, Undefined standing for an absent field).
Text(parse, body, valid, issues, plan, configuration) ==
    [parse |-> parse, body |-> body, valid |-> valid, issues |-> issues,
     plan |-> plan, configuration |-> configuration]

RawText(body) == Text("error", body, Undefined, Undefined, Undefined, Undefined)

\* a reply that is a JSON object with these fields
JsonText(valid, issues, plan, configuration) ==
    Text("object", <<"{json}">>, valid, issues, plan, configuration)

\* a result of generateConfiguration
LLMFailure == [success |-> FALSE, configuration |-> RawText(<<>>)]
LLMSuccess(text) == [success |-> TRUE, configuration |-> text]

\* !result.success || !result.configuration
LLMUnusable(result) ==
    \/ ~result.success
    \/ (result.configuration.parse = "error" /\ result.configuration.body = <<>>)

\* the replies to the validation prompt of RouterSimulator.applyConfiguration
ValidationReplies ==
    {LLMFailure, LLMSuccess(RawText(<<>>)), LLMSuccess(RawText(<<"looks", "fine">>))}
    \cup {LLMSuccess(JsonText(v, i, Undefined, Undefined)) :
            v \in {<<"true">>, <<"false">>, Undefined},
            i \in {<<"bad", "syntax">>, Undefined}}

\* what applyConfiguration does with the reply: "unusable", "rejected" or "apply"
ValidationVerdict(result) ==
    IF LLMUnusable(result) THEN "unusable"
    ELSE IF result.configuration.parse = "error" THEN "apply"
    ELSE IF result.configuration.valid = <<"true">> THEN "apply"
    \* !validation.valid: joining absent issues throws inside the try, and the
    \* catch continues with the application
    ELSE IF result.configuration.issues = Undefined THEN "apply"
    ELSE "rejected"

\* RouterSimulator.applyConfiguration once the validation reply is there, on
\* the router map: the result returned and the routers afterwards.  `present`
\* tells whether the router was found when the call started.
\* applyConfiguration writing what it derived from the device as it was at
\* start-up, not from the device as it is when the reply arrives
ApplyOntoStart(rs, routerId, config, result, present) ==
    IF ~present \/ ValidationVerdict(result) \in {"unusable", "rejected"}
    THEN [success |-> FALSE, output |-> Undefined, error |-> "not applied", routers |-> rs]
    ELSE [success |-> TRUE, output |-> <<"Configuration", "applied", "successfully">>,
          error |-> "",
          routers |->
              IF routerId \in DOMAIN rs \cap DOMAIN DefaultTopology
              THEN [rs EXCEPT ![routerId] =
                       updateRouterStateFromConfig(
                           updateRunningConfig(DefaultTopology[routerId], config), config)]
              ELSE rs]

applyConfiguration(rs, routerId, config, result, present) ==
    IF ~present
    THEN [success |-> FALSE, output |-> Undefined, error |-> "Router not found",
          routers |-> rs]
    ELSE IF ValidationVerdict(result) = "unusable"
    THEN [success |-> FALSE, output |-> Undefined,
          error |-> "Failed to validate configuration", routers |-> rs]
    ELSE IF ValidationVerdict(result) = "rejected"
    THEN [success |-> FALSE, output |-> Undefined,
          error |-> "Configuration validation failed", routers |-> rs]
    ELSE [success |-> TRUE, output |-> <<"Configuration", "applied", "successfully">>,
          error |-> "",
          routers |->
              IF routerId \in DOMAIN rs
              THEN [rs EXCEPT ![routerId] =
                       updateRouterStateFromConfig(
                           updateRunningConfig(rs[routerId], config), config)]
              ELSE rs]

(***************************************************************************)
(* RouterSimulator.executeCommand                                          *)
(***************************************************************************)
\* commands a caller may send; a command is trimmed and lower-cased first
Commands ==
    {<<"conf", "t">>, <<"show", "running-config">>, <<"show", "startup-config">>,
     <<"show", "interfaces">>, <<"write", "memory">>,
     <<"copy", "running-config", "startup-config">>, <<"ping", "10.0.0.1">>}

LowerText(text) == [i \in 1..Len(text) |-> Lower(text[i])]

\* startsWith("conf t") || startsWith("configure terminal")
IsConfigMode(command) ==
    LET c == LowerText(command)
    IN /\ Len(c) >= 2
       /\ \/ c[1] = "conf" /\ c[2] \in {"t", "terminal"}
          \/ c[1] = "configure" /\ c[2] = "terminal"

\* startsWith("show")
IsShow(command) == Len(command) >= 1 /\ Lower(command[1]) = "show"

\* === "write memory" || === "copy running-config startup-config"
IsSave(command) ==
    LowerText(command) \in {<<"write", "memory">>,
                            <<"copy", "running-config", "startup-config">>}

\* the text `show interfaces` builds from the interface list
RECURSIVE RenderInterfaces(_)
RenderInterfaces(interfaces) ==
    IF interfaces = <<>> THEN <<>>
    ELSE <<interfaces[1].name, "is", interfaces[1].status,
           "Internet", "address", "is",
           interfaces[1].ipAddress, "/", interfaces[1].subnetMask>>
         \o RenderInterfaces(Tail(interfaces))

\* the replies of the provider to a command prompt
CommandReplies ==
    {LLMFailure, LLMSuccess(RawText(<<>>)), LLMSuccess(RawText(<<"5", "packets", "received">>))}

CommandResult(success, output, error, rs) ==
    [success |-> success, output |-> output, error |-> error, routers |-> rs]

\* RouterSimulator.executeCommand once the provider reply is there, on the
\* router map: the result returned and the routers afterwards
executeCommand(rs, routerId, command, result, present) ==
    IF ~present
    THEN CommandResult(FALSE, Undefined, "Router not found", rs)
    ELSE IF LLMUnusable(result)
    THEN CommandResult(FALSE, Undefined, "Failed to process command", rs)
    ELSE IF IsConfigMode(command)
    THEN CommandResult(TRUE, <<"Enter", "configuration", "commands">>, "", rs)
    ELSE IF IsShow(command) /\ Includes1(LowerText(command), "running-config")
    THEN CommandResult(TRUE, rs[routerId].runningConfig, "", rs)
    ELSE IF IsShow(command) /\ Includes1(LowerText(command), "startup-config")
    THEN CommandResult(TRUE,
                       IF rs[routerId].startupConfig = <<>>
                       THEN <<"startup-config", "is", "not", "set">>
                       ELSE rs[routerId].startupConfig,
                       "", rs)
    ELSE IF IsShow(command) /\ Includes1(LowerText(command), "interfaces")
    THEN CommandResult(TRUE, RenderInterfaces(rs[routerId].interfaces), "", rs)
    ELSE IF IsSave(command)
    THEN CommandResult(TRUE, <<"Building", "configuration...", "[OK]">>, "",
                       [rs EXCEPT ![routerId] = saveRunningConfigToStartup(rs[routerId])])
    ELSE CommandResult(TRUE, result.configuration.body, "", rs)

(***************************************************************************)
(* MemoryManager                                                           *)
(***************************************************************************)
\* the agents of AIAgentSystem.initializeAgents, named by their type
AgentIds == {"configuration", "validation", "troubleshooting", "deployment"}

EmptyMemory == [shortTerm |-> <<>>, longTerm |-> <<>>]

\* storeMemory on one agent's bucket: unshift, and past the capacity pop the
\* last short-term entry and push it to long-term
StoreEvictsNewest(agentMemory, memoryEntry) ==
    LET unshifted == <<memoryEntry>> \o agentMemory.shortTerm
    IN IF Len(unshifted) > ShortTermCapacity
       THEN [shortTerm |-> SubSeq(unshifted, 2, Len(unshifted)),
             longTerm |-> Append(agentMemory.longTerm, unshifted[1])]
       ELSE [agentMemory EXCEPT !.shortTerm = unshifted]

StoreInBucket(agentMemory, memoryEntry) ==
    LET unshifted == <<memoryEntry>> \o agentMemory.shortTerm
    IN IF Len(unshifted) > ShortTermCapacity
       THEN [shortTerm |-> SubSeq(unshifted, 1, Len(unshifted) - 1),
             longTerm |-> Append(agentMemory.longTerm, unshifted[Len(unshifted)])]
       ELSE [agentMemory EXCEPT !.shortTerm = unshifted]

\* the bucket of an agent, created empty on the first store
BucketOf(mem, agentId) ==
    IF agentId \in DOMAIN mem THEN mem[agentId] ELSE EmptyMemory

StoreTwice(mem, agentId, memoryEntry) ==
    [a \in DOMAIN mem \cup {agentId} |->
        IF a = agentId
        THEN StoreInBucket(StoreInBucket(BucketOf(mem, agentId), memoryEntry), memoryEntry)
        ELSE mem[a]]

\* storeMemory on the map of buckets
storeMemory(mem, agentId, memoryEntry) ==
    [a \in DOMAIN mem \cup {agentId} |->
        IF a = agentId THEN StoreInBucket(BucketOf(mem, agentId), memoryEntry)
        ELSE mem[a]]

\* clearShortTermMemory on the map of buckets
clearShortTermMemory(mem, agentId) ==
    IF agentId \in DOMAIN mem
    THEN [mem EXCEPT ![agentId].shortTerm = <<>>]
    ELSE mem

\* consolidateMemories on the map of buckets
ConsolidateDropsLongTerm(mem, agentId) ==
    IF agentId \in DOMAIN mem
    THEN [mem EXCEPT ![agentId] = [shortTerm |-> <<>>, longTerm |-> mem[agentId].shortTerm]]
    ELSE mem

ConsolidateCopies(mem, agentId) ==
    IF agentId \in DOMAIN mem
    THEN [mem EXCEPT ![agentId].longTerm = mem[agentId].shortTerm \o mem[agentId].longTerm]
    ELSE mem

consolidateMemories(mem, agentId) ==
    IF agentId \in DOMAIN mem
    THEN [mem EXCEPT ![agentId] =
             [shortTerm |-> <<>>,
              longTerm |-> mem[agentId].shortTerm \o mem[agentId].longTerm]]
    ELSE mem

\* an entry as storeMemory builds it; the id stands for the uuid: the n-th
\* entry stored for the agent
\* entry stored for the agent; the timestamp is the time of that store
MemoryEntry(agentId, n, input, output) ==
    [id |-> <<agentId, n>>, input |-> input, output |-> output, timestamp |-> n]


(***************************************************************************)
(* SimpleVectorStore and MemoryManager.retrieveMemories                    *)
(***************************************************************************)
\* Array.prototype.sort with (a, b) => b.key - a.key: descending and stable;
\* the place of s[i] counts the greater keys and the equal keys before it
SortedPlace(s, i) ==
    1 + Cardinality({j \in 1..Len(s) : s[j].key > s[i].key})
      + Cardinality({j \in 1..(i - 1) : s[j].key = s[i].key})

\* (the sequence and the places are bound to names, so each is computed once)
SortDescending(unsorted) ==
    CHOOSE r \in {[p \in 1..Len(s) |-> s[CHOOSE i \in 1..Len(s) : place[i] = p]] :
                     s \in {unsorted},
                     place \in {[i \in 1..Len(unsorted) |-> SortedPlace(unsorted, i)]}} : TRUE

\* query.toLowerCase().split(/\s+/): the empty query gives one empty term
QueryTerms(query) ==
    IF query = <<>> THEN <<"">> ELSE [i \in 1..Len(query) |-> Lower(query[i])]

\* text.includes(term) on the lower-cased text
TermIn(text, term) ==
    term = "" \/ \E i \in 1..Len(text) : Lower(text[i]) = term

\* the score of a document: the query terms its text includes
Score(text, terms) == Cardinality({k \in 1..Len(terms) : TermIn(text, terms[k])})

\* SimpleVectorStore.search: ids of the documents with a positive score, best
\* first, at most `limit` of them
search(store, query, limit) ==
    LET scored == [i \in 1..Len(store) |->
                      [key |-> Score(store[i].text, QueryTerms(query)),
                       id |-> store[i].id]]
        results == SelectSeq(scored, LAMBDA r : r.key > 0)
    IN CHOOSE r \in {[i \in 1..Min(limit, Len(sorted)) |-> sorted[i].id] :
                        sorted \in {SortDescending(results)}} : TRUE

\* SimpleVectorStore.addDocument: Map.set keeps the place of a known id
addVector(store, id, text) ==
    IF \E i \in 1..Len(store) : store[i].id = id
    THEN [i \in 1..Len(store) |->
             IF store[i].id = id THEN [id |-> id, text |-> text] ELSE store[i]]
    ELSE Append(store, [id |-> id, text |-> text])

\* the long-term entries whose ids the search returned, in the search order
LongTermHits(longTerm, relevantDocIds) ==
    LET found == SelectSeq(relevantDocIds,
                           LAMBDA d : \E k \in 1..Len(longTerm) : longTerm[k].id = d)
    IN [i \in 1..Len(found) |->
           longTerm[CHOOSE k \in 1..Len(longTerm) :
                        /\ longTerm[k].id = found[i]
                        /\ \A j \in 1..(k - 1) : longTerm[j].id # found[i]]]

UnsortedCut(combinedMemories, limit) ==
    SubSeq(combinedMemories, 1, Min(limit, Len(combinedMemories)))

\* sort by timestamp, newest first, and slice(0, limit)
NewestFirst(combinedMemories, limit) ==
    CHOOSE r \in {[i \in 1..Min(limit, Len(sorted)) |-> sorted[i].entry] :
                     sorted \in {SortDescending(
                                    [i \in 1..Len(combinedMemories) |->
                                        [key |-> combinedMemories[i].timestamp,
                                         entry |-> combinedMemories[i]]])}} : TRUE

\* retrieveMemories: all short-term entries and the long-term entries among
\* the search results, newest first, cut to `limit`
retrieveMemories(mem, store, agentId, query, limit) ==
    CHOOSE r \in {NewestFirst(agentMemory.shortTerm
                                \o LongTermHits(agentMemory.longTerm, relevantDocIds),
                              limit) :
                     agentMemory \in {BucketOf(mem, agentId)},
                     relevantDocIds \in {search(store, query, limit)}} : TRUE

(***************************************************************************)
(* LLMIntegration: API keys, the prompt and the demo response              *)
(***************************************************************************)
\* the fields of an API key that generateConfiguration reads
ApiKey(provider, isActive) == [provider |-> provider, isActive |-> isActive]

\* loadDemoKeys: the keys the constructor registers
DemoKeys == [id \in {"1", "2"} |->
                IF id = "1" THEN ApiKey("groq", TRUE) ELSE ApiKey("ollama", FALSE)]

\* getActiveKeyForProvider: the active keys of the provider; the code returns
\* the first of them, or null when there is none
getActiveKeyForProvider(keys, provider) ==
    {id \in DOMAIN keys : keys[id].provider = provider /\ keys[id].isActive}

\* addApiKey; isActive is {} when the caller gave none, and then the key is
\* active only if it is the first one
addApiKey(keys, id, provider, isActive) ==
    [k \in DOMAIN keys \cup {id} |->
        IF k = id
        THEN ApiKey(provider, IF isActive = {} THEN DOMAIN keys = {} ELSE TRUE \in isActive)
        ELSE keys[k]]

\* deleteApiKey
deleteApiKey(keys, id) == [k \in DOMAIN keys \ {id} |-> keys[k]]

\* buildConfigurationPrompt; deviceInfo is <<>> or <<device>>
buildConfigurationPrompt(command, deviceInfo) ==
    <<"You", "are", "a", "network", "engineer", "expert", "in", "Cisco", "IOS",
      "configuration.", "Generate", "a", "complete,", "production-ready", "Cisco",
      "IOS", "configuration", "based", "on", "the", "following", "natural",
      "language", "command:", "Command:">>
    \o command
    \o (IF deviceInfo = <<>> THEN <<>>
        ELSE <<"Device", "Information:", "-", "Name:", deviceInfo[1].name,
               "-", "IP:", deviceInfo[1].ip, "-", "Type:", deviceInfo[1].deviceType>>)
    \o <<"Requirements:", "1.", "Generate", "only", "valid", "Cisco", "IOS", "commands",
         "2.", "Include", "appropriate", "comments", "using", "'!'", "character",
         "3.", "Follow", "Cisco", "best", "practices",
         "4.", "Include", "error", "handling", "where", "applicable",
         "5.", "Ensure", "configuration", "is", "complete", "and", "ready", "to", "apply",
         "Generate", "the", "configuration:">>

\* demoConfigs of generateDemoResponse
DemoInterface ==
    <<"!", "Interface", "Configuration",
      "interface", "GigabitEthernet0/1", "description", "WAN", "Connection",
      "ip", "address", "192.168.1.1", "255.255.255.0", "no", "shutdown", "!",
      "interface", "GigabitEthernet0/2", "description", "LAN", "Connection",
      "ip", "address", "10.0.1.1", "255.255.255.0", "no", "shutdown", "!">>

DemoRouting ==
    <<"!", "OSPF", "Routing", "Configuration",
      "router", "ospf", "1",
      "network", "192.168.1.0", "0.0.0.255", "area", "0",
      "network", "10.0.1.0", "0.0.0.255", "area", "0", "!",
      "ip", "route", "0.0.0.0", "0.0.0.0", "192.168.1.254", "!">>

DemoVlan ==
    <<"!", "VLAN", "Configuration",
      "vlan", "10", "name", "USERS", "vlan", "20", "name", "SERVERS",
      "vlan", "30", "name", "MANAGEMENT", "!",
      "interface", "vlan", "10",
      "ip", "address", "10.0.10.1", "255.255.255.0", "no", "shutdown", "!">>

DemoAcl ==
    <<"!", "Access", "Control", "List",
      "ip", "access-list", "extended", "BLOCK_TELNET",
      "deny", "tcp", "any", "any", "eq", "23", "permit", "ip", "any", "any", "!",
      "interface", "GigabitEthernet0/1",
      "ip", "access-group", "BLOCK_TELNET", "in", "!">>

\* the configuration of the last branch, which quotes the text it was given
DemoGenerated(command, deviceInfo) ==
    <<"!", "Generated", "Configuration", "for:">> \o command
    \o <<"!", "Device:", IF deviceInfo = <<>> THEN "Unknown" ELSE deviceInfo[1].name, "!",
         "interface", "GigabitEthernet0/1", "description", "Generated", "Interface",
         "ip", "address", "192.168.1.1", "255.255.255.0", "no", "shutdown", "!",
         "router", "ospf", "1",
         "network", "192.168.1.0", "0.0.0.255", "area", "0", "!",
         "ip", "route", "0.0.0.0", "0.0.0.0", "192.168.1.254", "!">>

\* the keywords of generateDemoResponse found inside a lower-case token:
\* String.prototype.includes looks inside words, so `router` has `route`
\* and `oracle-sw` has `acl`
KeywordsIn(tok) ==
    CASE tok \in {"interface", "interfaces"} -> {"interface"}
      [] tok = "routing" -> {"routing"}
      [] tok = "ospf" -> {"ospf"}
      [] tok \in {"route", "router"} -> {"route"}
      [] tok = "vlan" -> {"vlan"}
      [] tok \in {"acl", "oracle-sw"} -> {"acl"}
      [] tok = "access-list" -> {"access-list"}
      [] OTHER -> {}

\* commandLower.includes(keyword)
IncludesKeyword(text, keyword) ==
    \E i \in 1..Len(text) : keyword \in KeywordsIn(Lower(text[i]))

\* a ConfigurationResult
ConfigurationResult(success, configuration, provider, error) ==
    [success |-> success, configuration |-> configuration, provider |-> provider,
     error |-> error]

DemoUnavailable(command, deviceInfo) ==
    ConfigurationResult(FALSE, <<>>, "demo", "demo unavailable")

\* generateDemoResponse
generateDemoResponse(command, deviceInfo) ==
    LET config ==
            IF \/ IncludesKeyword(command, "interface")
               \/ Includes2(LowerText(command), "ip", "address")
            THEN DemoInterface
            ELSE IF \/ IncludesKeyword(command, "routing")
                    \/ IncludesKeyword(command, "ospf")
                    \/ IncludesKeyword(command, "route")
            THEN DemoRouting
            ELSE IF IncludesKeyword(command, "vlan")
            THEN DemoVlan
            ELSE IF IncludesKeyword(command, "acl") \/ IncludesKeyword(command, "access-list")
            THEN DemoAcl
            ELSE DemoGenerated(command, deviceInfo)
    IN ConfigurationResult(TRUE, config, "demo", NullString)

\* what the backend of a provider does with a prompt: it fails (an error, a
\* timeout, a status other than 200) or it answers with a text
BackendReplies ==
    {[ok |-> FALSE, text |-> <<>>],
     [ok |-> TRUE, text |-> <<"router", "ospf", "1">>]}

\* generateWithGroq / generateWithOpenAI / generateWithOllama once the
\* backend has replied
generateWithBackend(provider, prompt, reply) ==
    IF reply.ok
    THEN ConfigurationResult(TRUE, reply.text, provider, NullString)
    ELSE generateDemoResponse(prompt, <<>>)

\* logUsage
logUsage(history, provider, command, success) ==
    Append(history, [provider |-> provider, command |-> command, success |-> success])

\* NetworkOperations.loadDemoDevices: the registry after construction
DemoDevices ==
    [id \in {"1", "2", "3", "4"} |->
        IF id = "1" THEN [name |-> "Core-Switch-01", status |-> "online", lastSeen |-> "2 min ago"]
        ELSE IF id = "2" THEN [name |-> "Router-WAN-01", status |-> "online", lastSeen |-> "1 min ago"]
        ELSE IF id = "3" THEN [name |-> "Access-Switch-02", status |-> "warning",
                               lastSeen |-> "15 min ago"]
        ELSE [name |-> "Firewall-01", status |-> "offline", lastSeen |-> "2 hours ago"]]

(***************************************************************************)
(* State                                                                   *)
(***************************************************************************)
VARIABLES
    routers,            \* RouterSimulator.routers: id -> router
    activeConnections,  \* RouterSimulator.activeConnections: session -> router id
    memories,           \* MemoryManager.memories: agent id -> bucket
    vectorStore,        \* MemoryManager.vectorStore: documents in insertion order
    stored,             \* per agent, the number of entries stored so far
    resets,             \* per agent, the clear and consolidate calls so far
    lastResult,         \* what the latest MemoryManager call returned
    tasks,              \* AIAgentSystem.tasks: the tasks in creation order
    documents,          \* AgenticRAG.documents in insertion order
    executions,         \* the executeTask calls made through AIAgentSystem
    pipelines,          \* PipelineManager.pipelines: id -> pipeline
    pipelineRun,        \* per pipeline, the locals of its execute... call
    bulkOperations,     \* NetworkAutomation.bulkOperations: id -> operation
    bulkRun,            \* per operation, the locals of executeBulkOperation
    apiKeys,            \* LLMIntegration.apiKeys: id -> key
    usageHistory,       \* LLMIntegration.usageHistory
    generations,        \* the generateConfiguration calls: id -> call
    devices,            \* NetworkOperations.devices: id -> device
    deviceConnections,  \* NetworkOperations.activeConnections: the connected ids
    connectCalls,       \* the connectToDevice calls that reached their delay
    connectionHistory,  \* NetworkOperations.connectionHistory
    rateLimitStore,     \* rateLimiter's rateLimitStore: client -> entry
    now,                \* the clock read by Date.now()
    responses           \* per client, the latest response of rateLimiter

deviceVars == <<routers, activeConnections>>
memoryVars == <<memories, vectorStore, stored, resets, lastResult>>
agentVars == <<tasks, documents, executions>>
pipelineVars == <<pipelines, pipelineRun>>
bulkVars == <<bulkOperations, bulkRun>>
llmVars == <<apiKeys, usageHistory, generations>>
registryVars == <<devices, deviceConnections, connectCalls, connectionHistory>>
limiterVars == <<rateLimitStore, now, responses>>
vars == <<routers, activeConnections, memories, vectorStore, stored, resets,
          lastResult, tasks, documents, executions, pipelines, pipelineRun,
          bulkOperations, bulkRun, apiKeys, usageHistory, generations,
          devices, deviceConnections, connectCalls, connectionHistory,
          rateLimitStore, now, responses>>

\* the state after the constructors have run
Init ==
    /\ routers = DefaultTopology
    /\ activeConnections = <<>>
    /\ memories = <<>>
    /\ vectorStore = <<>>
    /\ stored = [a \in AgentIds |-> 0]
    /\ resets = [a \in AgentIds |-> 0]
    /\ lastResult = Null
    /\ tasks = <<>>
    /\ documents = <<>>
    /\ executions = <<>>
    /\ pipelines = <<>>
    /\ pipelineRun = <<>>
    /\ bulkOperations = <<>>
    /\ bulkRun = <<>>
    /\ apiKeys = DemoKeys
    /\ usageHistory = <<>>
    /\ generations = <<>>
    /\ devices = DemoDevices
    /\ deviceConnections = {}
    /\ connectCalls = <<>>
    /\ connectionHistory = <<>>
    /\ rateLimitStore = <<>>
    /\ now = 0
    /\ responses = <<>>

(***************************************************************************)
(* MemoryManager called directly                                           *)
(***************************************************************************)
\* the agent the memory workload follows
MemoryAgents == {"configuration"}

\* the texts of the memory workload
MemoryInputs == {<<"configure", "ospf">>}
MemoryQueries == {<<"ospf">>, <<"bgp">>}
MemoryLimits == {1, 5}

\* the whole effect of storeMemory(agentId, entry) on the manager
StoreEffect(agentId, input, output) ==
    LET memoryEntry == MemoryEntry(agentId, stored[agentId] + 1, input, output)
    IN /\ memories' = storeMemory(memories, agentId, memoryEntry)
       /\ vectorStore' = addVector(vectorStore, memoryEntry.id, input \o output.body)
       /\ stored' = [stored EXCEPT ![agentId] = @ + 1]

StoreMemory(agentId) ==
    /\ stored[agentId] < MaxStores
    /\ \E input \in MemoryInputs :
          /\ StoreEffect(agentId, input, RawText(<<"router", "ospf", "1">>))
          /\ lastResult' = <<"id", agentId, stored[agentId] + 1>>
    /\ UNCHANGED <<resets, deviceVars, agentVars, pipelineVars, bulkVars, llmVars, registryVars, limiterVars>>

RetrieveMemories(agentId) ==
    /\ \E query \in MemoryQueries, limit \in MemoryLimits :
          \E entries \in {retrieveMemories(memories, vectorStore, agentId, query, limit)} :
              lastResult' = <<"entries">> \o [i \in 1..Len(entries) |-> entries[i].id[2]]
    /\ UNCHANGED <<memories, vectorStore, stored, resets,
                   deviceVars, agentVars, pipelineVars, bulkVars, llmVars, registryVars, limiterVars>>

ClearShortTermMemory(agentId) ==
    /\ resets[agentId] < MaxResets
    /\ memories' = clearShortTermMemory(memories, agentId)
    /\ resets' = [resets EXCEPT ![agentId] = @ + 1]
    /\ lastResult' = Null
    /\ UNCHANGED <<vectorStore, stored, deviceVars, agentVars, pipelineVars, bulkVars, llmVars, registryVars, limiterVars>>

ConsolidateMemories(agentId) ==
    /\ resets[agentId] < MaxResets
    /\ memories' = consolidateMemories(memories, agentId)
    /\ resets' = [resets EXCEPT ![agentId] = @ + 1]
    /\ lastResult' = Null
    /\ UNCHANGED <<vectorStore, stored, deviceVars, agentVars, pipelineVars, bulkVars, llmVars, registryVars, limiterVars>>

NextMemory ==
    \/ \E a \in MemoryAgents : StoreMemory(a)
    \/ \E a \in MemoryAgents : RetrieveMemories(a)
    \/ \E a \in MemoryAgents : ClearShortTermMemory(a)
    \/ \E a \in MemoryAgents : ConsolidateMemories(a)

SpecMemory == Init /\ [][NextMemory]_vars

\* a second agent, and a second text; the stores with the second text are
\* the early ones, made before the followed agent has stored anything
OtherAgents == {"validation"}
OtherInputs == {<<"configure", "bgp">>}

StoreOtherMemory(agentId) ==
    /\ stored[agentId] < MaxOtherStores
    /\ \A a \in MemoryAgents : stored[a] = 0 /\ resets[a] = 0
    /\ \E input \in OtherInputs :
          /\ StoreEffect(agentId, input, RawText(<<"router", "bgp", "1">>))
          /\ lastResult' = <<"id", agentId, stored[agentId] + 1>>
    /\ UNCHANGED <<resets, deviceVars, agentVars, pipelineVars, bulkVars, llmVars, registryVars, limiterVars>>

NextBuckets ==
    \/ NextMemory
    \/ \E a \in MemoryAgents \cup OtherAgents : StoreOtherMemory(a)

SpecBuckets == Init /\ [][NextBuckets]_vars


(***************************************************************************)
(* RouterSimulator.createRouter called directly                            *)
(***************************************************************************)
CreateRouter(id) ==
    /\ id \in CreatedRouterIds \ DOMAIN routers
    /\ routers' = [r \in DOMAIN routers \cup {id} |->
                      IF r = id THEN NewRouter("R-new") ELSE routers[r]]
    /\ UNCHANGED <<activeConnections, memoryVars, agentVars, pipelineVars, bulkVars, llmVars, registryVars, limiterVars>>

\* RouterSimulator.deleteRouter called directly
DeleteRouter(id) ==
    /\ id \in DOMAIN routers
    /\ routers' = [r \in DOMAIN routers \ {id} |-> routers[r]]
    /\ UNCHANGED <<activeConnections, memoryVars, agentVars, pipelineVars, bulkVars, llmVars, registryVars, limiterVars>>

(***************************************************************************)
(* NetworkAutomation: bulk operations                                      *)
(***************************************************************************)
\* one operation is followed from its creation to its end
BulkIds == {"b1"}
SessionIds == {"s1"}

\* what a bulk operation may carry
BulkConfigs == {CfgSecureUp, CfgDescriptionOnly, EmptyConfig}
BulkPayloads ==
    {[operationType |-> "command", data |-> c] : c \in Commands}
    \cup {[operationType |-> "configuration", data |-> c] : c \in BulkConfigs}

\* f with key k set to v (Map.set, or an assignment to a property)
SetKey(f, k, v) == [x \in DOMAIN f \cup {k} |-> IF x = k THEN v ELSE f[x]]

\* Math.round((completedDevices / totalDevices) * 100), halves rounded up
RoundPercent(completedDevices, totalDevices) ==
    (200 * completedDevices + totalDevices) \div (2 * totalDevices)

\* a caller that takes every device call for a success
ResultAlwaysSuccess(r) == [success |-> TRUE, output |-> r.output, error |-> r.error]

\* the part of a device call's result that the caller keeps
ResultOf(r) == [success |-> r.success, output |-> r.output, error |-> r.error]

\* the start of RouterSimulator.executeCommand / applyConfiguration: the
\* router is looked up, and if it is there the session is recorded
ConnectionsAfterLookup(conns, rs, sessionId, routerId) ==
    IF routerId \in DOMAIN rs THEN SetKey(conns, sessionId, routerId) ELSE conns

\* the replies the call for this operation waits for (none is asked for when
\* the router was not found)
RepliesFor(operationType, present) ==
    IF ~present THEN {LLMFailure}
    ELSE IF operationType = "command" THEN CommandReplies
    ELSE ValidationReplies

RecordReopensOperation(operation, deviceId, result, completedDevices) ==
    [operation EXCEPT
        !.status = "pending",
        !.results = SetKey(@, deviceId, result),
        !.progress = RoundPercent(completedDevices + 1, Len(operation.deviceIds))]

\* operation.results[deviceId] = result; completedDevices++; progress = ...
recordBulkResult(operation, deviceId, result, completedDevices) ==
    [operation EXCEPT
        !.results = SetKey(@, deviceId, result),
        !.progress = RoundPercent(completedDevices + 1, Len(operation.deviceIds))]

\* the end of the loop: operation.status = "completed"
FinishFailsOnDeviceFailure(operation) ==
    IF \E d \in DOMAIN operation.results : ~operation.results[d].success
    THEN [operation EXCEPT !.status = "failed", !.error = "device failed"]
    ELSE [operation EXCEPT !.status = "completed"]

finishBulkOperation(operation) == [operation EXCEPT !.status = "completed"]

CreateFinishesAtOnce(id, payload, deviceIds, sessionId) ==
    /\ id \notin DOMAIN bulkOperations
    /\ bulkOperations' =
           SetKey(bulkOperations, id,
                  finishBulkOperation([operationType |-> payload.operationType,
                                       deviceIds |-> deviceIds,
                                       data |-> payload.data,
                                       sessionId |-> sessionId,
                                       status |-> "running",
                                       progress |-> 0,
                                       results |-> <<>>,
                                       error |-> NullString]))
    /\ bulkRun' = SetKey(bulkRun, id,
                         [pc |-> "done", index |-> 1, completedDevices |-> 0,
                          present |-> FALSE, pending |-> Null])
    /\ UNCHANGED <<activeConnections, routers, memoryVars, agentVars, pipelineVars, llmVars, registryVars, limiterVars>>

\* createBulkOperation, with the part of executeBulkOperation that runs
\* before its first await
CreateBulkOperation(id, payload, deviceIds, sessionId) ==
    LET operation == [operationType |-> payload.operationType,
                      deviceIds |-> deviceIds,
                      data |-> payload.data,
                      sessionId |-> sessionId,
                      status |-> "running",
                      progress |-> 0,
                      results |-> <<>>,
                      error |-> NullString]
    IN /\ id \notin DOMAIN bulkOperations
       /\ IF deviceIds = <<>>
          THEN /\ bulkOperations' = SetKey(bulkOperations, id, finishBulkOperation(operation))
               /\ bulkRun' = SetKey(bulkRun, id,
                                    [pc |-> "done", index |-> 1, completedDevices |-> 0,
                                     present |-> FALSE, pending |-> Null])
               /\ UNCHANGED activeConnections
          ELSE /\ bulkOperations' = SetKey(bulkOperations, id, operation)
               /\ bulkRun' = SetKey(bulkRun, id,
                                    [pc |-> "call", index |-> 1, completedDevices |-> 0,
                                     present |-> deviceIds[1] \in DOMAIN routers,
                                     pending |-> Null])
               /\ activeConnections' =
                      ConnectionsAfterLookup(activeConnections, routers, sessionId, deviceIds[1])
       /\ UNCHANGED <<routers, memoryVars, agentVars, pipelineVars, llmVars, registryVars, limiterVars>>

\* the device call of the current iteration returns
BulkDeviceCall(id) ==
    /\ id \in DOMAIN bulkOperations
    /\ bulkRun[id].pc = "call"
    /\ LET operation == bulkOperations[id]
           deviceId == operation.deviceIds[bulkRun[id].index]
       IN \E reply \in RepliesFor(operation.operationType, bulkRun[id].present) :
             \E r \in {IF operation.operationType = "command"
                       THEN executeCommand(routers, deviceId, operation.data, reply,
                                           bulkRun[id].present)
                       ELSE applyConfiguration(routers, deviceId, operation.data, reply,
                                               bulkRun[id].present)} :
                /\ routers' = r.routers
                /\ bulkRun' = [bulkRun EXCEPT ![id].pc = "record",
                                              ![id].pending = ResultOf(r)]
    /\ UNCHANGED <<activeConnections, bulkOperations, memoryVars, agentVars, pipelineVars, llmVars, registryVars, limiterVars>>

\* the result is recorded and the loop goes on to the next device or ends
BulkRecord(id) ==
    /\ id \in DOMAIN bulkOperations
    /\ bulkRun[id].pc = "record"
    /\ LET run == bulkRun[id]
           operation == bulkOperations[id]
           recorded == recordBulkResult(operation, operation.deviceIds[run.index],
                                        run.pending, run.completedDevices)
       IN IF run.index < Len(operation.deviceIds)
          THEN /\ bulkOperations' = [bulkOperations EXCEPT ![id] = recorded]
               /\ bulkRun' = [bulkRun EXCEPT
                                 ![id].pc = "call",
                                 ![id].index = @ + 1,
                                 ![id].completedDevices = @ + 1,
                                 ![id].present =
                                     operation.deviceIds[run.index + 1] \in DOMAIN routers,
                                 ![id].pending = Null]
               /\ activeConnections' =
                      ConnectionsAfterLookup(activeConnections, routers, operation.sessionId,
                                             operation.deviceIds[run.index + 1])
          ELSE /\ bulkOperations' = [bulkOperations EXCEPT ![id] = finishBulkOperation(recorded)]
               /\ bulkRun' = [bulkRun EXCEPT ![id].pc = "done",
                                             ![id].completedDevices = @ + 1,
                                             ![id].pending = Null]
               /\ UNCHANGED activeConnections
    /\ UNCHANGED <<routers, memoryVars, agentVars, pipelineVars, llmVars, registryVars, limiterVars>>

NextBulk ==
    \/ \E id \in BulkIds, payload \in BulkPayloads,
          deviceIds \in SeqsUpTo(TargetIds, MaxTargets), sessionId \in SessionIds :
          CreateBulkOperation(id, payload, deviceIds, sessionId)
    \/ \E id \in BulkIds : BulkDeviceCall(id)
    \/ \E id \in BulkIds : BulkRecord(id)
    \/ \E id \in CreatedRouterIds : CreateRouter(id)

SpecBulk == Init /\ [][NextBulk]_vars

(***************************************************************************)
(* Two bulk operations at work on one device at the same time, and the     *)
(* device deleted under them                                               *)
(***************************************************************************)
SharedBulkIds == {"b1", "b2"}
SharedDevice == "r1"
SharedTargets == {<<SharedDevice>>}
\* a text with two blocks for one interface that the device does not have yet
CfgRepeatedInterface ==
    <<"interface", "Gig0/2", "ip", "address", "10.0.2.9", "255.255.255.0",
      "interface", "Gig0/2", "shutdown">>
SharedConfigs == BulkConfigs \cup {CfgRepeatedInterface}
SharedPayloads == {[operationType |-> "configuration", data |-> c] : c \in SharedConfigs}

NextShared ==
    \/ \E id \in SharedBulkIds, payload \in SharedPayloads,
          deviceIds \in SharedTargets, sessionId \in SessionIds :
          CreateBulkOperation(id, payload, deviceIds, sessionId)
    \/ \E id \in SharedBulkIds : BulkDeviceCall(id)
    \/ \E id \in SharedBulkIds : BulkRecord(id)
    \/ DeleteRouter(SharedDevice)

SpecShared == Init /\ [][NextShared]_vars

(***************************************************************************)
(* AIAgentSystem: tasks                                                    *)
(***************************************************************************)
\* the task createTask registers (priority || 1, context || "")
NewTask(agentType, input, context, priority, stage) ==
    [agentId |-> agentType, agentType |-> agentType, status |-> "pending",
     input |-> input, context |-> context,
     priority |-> IF priority = 0 THEN 1 ELSE priority,
     stage |-> stage, output |-> Null, error |-> NullString]

\* executeTask: the three assignments to the task
TaskRunning(task) == [task EXCEPT !.status = "running"]
TaskCompleted(task, result) == [task EXCEPT !.output = result, !.status = "completed"]
FailureLeavesRunning(task, error) == [task EXCEPT !.error = error]
TaskFailed(task, error) == [task EXCEPT !.status = "failed", !.error = error]

\* planTask.status !== "completed" || !planTask.output
TaskUnusable(task) ==
    IF task.status # "completed" THEN TRUE
    ELSE task.output.parse = "error" /\ task.output.body = <<>>

(***************************************************************************)
(* PipelineManager                                                         *)
(***************************************************************************)
\* one pipeline is followed from its creation to its end
PipelineIds == {"p1"}
PipelineCommands == {<<"configure", "the", "uplink">>}

DeploymentStages == <<"planning", "generation", "testing", "deployment">>
RetrievalStages == <<"discovery", "extraction", "analysis">>

NewPipeline(type, stageIds, input, sessionId) ==
    [type |-> type, status |-> "pending", progress |-> 0,
     stages |-> [i \in 1..Len(stageIds) |->
                    [id |-> stageIds[i], status |-> "pending", output |-> Null]],
     input |-> input, output |-> Null, sessionId |-> sessionId, error |-> NullString]

\* the locals of executeDeploymentPipeline / executeRetrievalPipeline;
\* `attempted` lists the applyConfiguration calls that have returned
NewRun(stage, pc) ==
    [stage |-> stage, pc |-> pc, deviceInfo |-> Null, taskId |-> 0, reply |-> Null,
     plan |-> Null, configuration |-> Null, validation |-> Null,
     index |-> 0, present |-> FALSE, pending |-> Null,
     attempted |-> <<>>, deploymentResults |-> <<>>, deviceInfoMap |-> <<>>, configMap |-> <<>>,
     analysisResults |-> <<>>, documentId |-> 0, thrown |-> NullString]

\* updatePipelineStage: the stage of that id gets the status and the output
StageUpdateHitsNextStage(pipeline, stageId, status, output) ==
    [pipeline EXCEPT !.stages =
        [i \in 1..Len(pipeline.stages) |->
            IF pipeline.stages[i].id = stageId
               \/ (status = "failed" /\ i > 1 /\ pipeline.stages[i - 1].id = stageId)
            THEN [pipeline.stages[i] EXCEPT !.status = status, !.output = output]
            ELSE pipeline.stages[i]]]

updatePipelineStage(pipeline, stageId, status, output) ==
    [pipeline EXCEPT !.stages =
        [i \in 1..Len(pipeline.stages) |->
            IF pipeline.stages[i].id = stageId
            THEN [pipeline.stages[i] EXCEPT !.status = status, !.output = output]
            ELSE pipeline.stages[i]]]

\* the catch block of both execute... methods
FailureWithoutError(pipeline, error) == [pipeline EXCEPT !.status = "failed"]

FailureResetsStages(pipeline, error) ==
    [pipeline EXCEPT !.status = "failed", !.error = error,
                     !.stages = [i \in 1..Len(pipeline.stages) |->
                                    [pipeline.stages[i] EXCEPT !.output = Null]]]

pipelineFailed(pipeline, error) == [pipeline EXCEPT !.status = "failed", !.error = error]

CompletionResetsProgress(pipeline, output) ==
    [pipeline EXCEPT !.status = "completed", !.progress = 0, !.output = output]

\* the end of both execute... methods
pipelineCompleted(pipeline, output) ==
    [pipeline EXCEPT !.status = "completed", !.progress = 100, !.output = output]

\* the replies of the provider to the prompts of the agents
PlanReplies ==
    {LLMFailure,
     LLMSuccess(RawText(<<"first", "configure", "interfaces">>)),
     LLMSuccess(JsonText(Undefined, Undefined, <<"step1", "step2">>, Undefined))}

RawGenerations == {CfgSecureUp, CfgNoEncryption}

GenerationReplies ==
    {LLMFailure}
    \cup {LLMSuccess(RawText(c)) : c \in RawGenerations}
    \cup {LLMSuccess(JsonText(Undefined, Undefined, Undefined, c)) :
            c \in GeneratedConfigs \cup {Undefined}}

InsightReplies == {LLMFailure, LLMSuccess(RawText(<<"two", "interfaces", "up">>))}

RepliesForStage(stage) ==
    IF stage = "planning" THEN PlanReplies
    ELSE IF stage = "generation" THEN GenerationReplies
    ELSE InsightReplies

\* JSON.parse(planTask.output).plan, or the fallback plan when parsing throws
ParsePlan(output) ==
    IF output.parse = "error"
    THEN <<"Generate", "configuration", "based", "on", "command">>
    ELSE output.plan

\* JSON.parse(generateTask.output).configuration, or the raw output when
\* parsing throws
ParseConfiguration(output) ==
    IF output.parse = "error" THEN output.body ELSE output.configuration

\* Object.values(deploymentResults).every((result) => result.success)
AnySuccessIsEnough(deploymentResults) ==
    \/ DOMAIN deploymentResults = {}
    \/ \E d \in DOMAIN deploymentResults : deploymentResults[d].success

allSuccessful(deploymentResults) ==
    \A d \in DOMAIN deploymentResults : deploymentResults[d].success

\* the device facts the discovery stage snapshots
DeviceInfoMap(rs, deviceIds) ==
    [d \in Range(deviceIds) |->
        IF d \in DOMAIN rs
        THEN [id |-> d, name |-> rs[d].name, error |-> NullString]
        ELSE [id |-> NullString, name |-> NullString, error |-> "Device not found"]]

\* the configurations the extraction stage reads
ConfigMap(rs, deviceIds) ==
    [d \in Range(deviceIds) |->
        IF d \in DOMAIN rs
        THEN [runningConfig |-> rs[d].runningConfig,
              startupConfig |-> rs[d].startupConfig, error |-> NullString]
        ELSE [runningConfig |-> Undefined, startupConfig |-> Undefined,
              error |-> "Failed to retrieve configuration"]]

\* const config = configMap[deviceId]?.runningConfig; if (!config) continue
HasConfig(configMap, deviceId) ==
    /\ configMap[deviceId].runningConfig # Undefined
    /\ configMap[deviceId].runningConfig # <<>>

\* the first device from `index` on that the analysis loop does not skip
\* (Len + 1 when there is none)
SkipsNothing(configMap, deviceIds, index) == index

NextAnalysed(configMap, deviceIds, index) ==
    LET candidates == {i \in index..Len(deviceIds) : HasConfig(configMap, deviceIds[i])}
    IN IF candidates = {} THEN Len(deviceIds) + 1
       ELSE CHOOSE i \in candidates : \A j \in candidates : i <= j

\* the pipeline and the locals of its run after a step
SetPipeline(id, pipeline, run) ==
    /\ pipelines' = SetKey(pipelines, id, pipeline)
    /\ pipelineRun' = SetKey(pipelineRun, id, run)

AtStep(id, type, stage, pc) ==
    /\ id \in DOMAIN pipelines
    /\ pipelines[id].type = type
    /\ pipelineRun[id].stage = stage
    /\ pipelineRun[id].pc = pc

\* createDeploymentPipeline, with the part of executeDeploymentPipeline that
\* runs before its first await
CreateDeploymentPipeline(id, command, deviceIds, sessionId) ==
    LET pipeline == NewPipeline("deployment", DeploymentStages,
                                [command |-> command, deviceIds |-> deviceIds], sessionId)
        running == [pipeline EXCEPT !.status = "running", !.progress = 0]
    IN /\ id \notin DOMAIN pipelines
       /\ SetPipeline(id, updatePipelineStage(running, "planning", "running", Null),
                      NewRun("planning", "createTask"))
       /\ UNCHANGED <<deviceVars, memoryVars, agentVars, bulkVars, llmVars, registryVars, limiterVars>>

\* the device info of the first device is read and the planning task created
PlanningCreateTask(id) ==
    /\ AtStep(id, "deployment", "planning", "createTask")
    /\ LET input == pipelines[id].input
           deviceInfo ==
               IF Len(input.deviceIds) > 0 /\ input.deviceIds[1] \in DOMAIN routers
               THEN [name |-> routers[input.deviceIds[1]].name,
                     interfaces |-> routers[input.deviceIds[1]].interfaces]
               ELSE Null
       IN /\ tasks' = Append(tasks, NewTask("configuration", input.command,
                                            deviceInfo, 3, "planning"))
          /\ pipelineRun' = [pipelineRun EXCEPT ![id].deviceInfo = deviceInfo,
                                                ![id].taskId = Len(tasks) + 1,
                                                ![id].pc = "executeTask"]
    /\ UNCHANGED <<deviceVars, memoryVars, documents, executions, pipelines, bulkVars, llmVars, registryVars, limiterVars>>

\* AIAgentSystem.executeTask up to the agent's first await
TaskStart(id) ==
    /\ id \in DOMAIN pipelines
    /\ pipelineRun[id].pc = "executeTask"
    /\ tasks' = [tasks EXCEPT ![pipelineRun[id].taskId] = TaskRunning(@)]
    /\ pipelineRun' = [pipelineRun EXCEPT ![id].pc = "llm"]
    /\ UNCHANGED <<deviceVars, memoryVars, documents, executions, pipelines, bulkVars, llmVars, registryVars, limiterVars>>

\* the provider answers: processWithLLM throws and the task fails, or the
\* result is stored in the agent's memory
TaskReply(id) ==
    /\ id \in DOMAIN pipelines
    /\ pipelineRun[id].pc = "llm"
    /\ LET taskId == pipelineRun[id].taskId
           agentId == tasks[taskId].agentId
       IN \E result \in RepliesForStage(pipelineRun[id].stage) :
             IF LLMUnusable(result)
             THEN /\ tasks' = [tasks EXCEPT ![taskId] =
                                  TaskFailed(@, "Failed to process with LLM")]
                  /\ pipelineRun' = [pipelineRun EXCEPT ![id].pc = "check"]
                  /\ UNCHANGED memoryVars
             ELSE /\ StoreEffect(agentId, tasks[taskId].input, result.configuration)
                  /\ stored' = [stored EXCEPT ![agentId] = @ + 1]
                  /\ pipelineRun' = [pipelineRun EXCEPT ![id].pc = "stored",
                                                        ![id].reply = result.configuration]
                  /\ UNCHANGED <<tasks, resets, lastResult>>
    /\ UNCHANGED <<deviceVars, documents, executions, pipelines, bulkVars, llmVars, registryVars, limiterVars>>

\* storeMemory has returned: the task gets its output and is completed
TaskFinish(id) ==
    /\ id \in DOMAIN pipelines
    /\ pipelineRun[id].pc = "stored"
    /\ tasks' = [tasks EXCEPT ![pipelineRun[id].taskId] =
                    TaskCompleted(@, pipelineRun[id].reply)]
    /\ pipelineRun' = [pipelineRun EXCEPT ![id].pc = "check", ![id].reply = Null]
    /\ UNCHANGED <<deviceVars, memoryVars, documents, executions, pipelines, bulkVars, llmVars, registryVars, limiterVars>>

\* the planning task is back: throw into the catch block, or complete the stage
PlanningCheck(id) ==
    /\ AtStep(id, "deployment", "planning", "check")
    /\ LET planTask == tasks[pipelineRun[id].taskId]
       IN IF TaskUnusable(planTask)
          THEN SetPipeline(id, pipelineFailed(pipelines[id], "Configuration planning failed"),
                           [pipelineRun[id] EXCEPT !.pc = "done"])
          ELSE SetPipeline(id, updatePipelineStage(pipelines[id], "planning", "completed",
                                                   planTask.output),
                           [pipelineRun[id] EXCEPT !.pc = "advance"])
    /\ UNCHANGED <<deviceVars, memoryVars, agentVars, bulkVars, llmVars, registryVars, limiterVars>>

\* progress = 25 and the generation stage starts
GenerationStart(id) ==
    /\ AtStep(id, "deployment", "planning", "advance")
    /\ SetPipeline(id, updatePipelineStage([pipelines[id] EXCEPT !.progress = 25],
                                           "generation", "running", Null),
                   [pipelineRun[id] EXCEPT !.stage = "generation", !.pc = "createTask"])
    /\ UNCHANGED <<deviceVars, memoryVars, agentVars, bulkVars, llmVars, registryVars, limiterVars>>

\* the plan is parsed and the generation task created
GenerationCreateTask(id) ==
    /\ AtStep(id, "deployment", "generation", "createTask")
    /\ LET run == pipelineRun[id]
           plan == ParsePlan(tasks[run.taskId].output)
           input == <<"{json}">> \o pipelines[id].input.command
                    \o (IF plan = Undefined THEN <<>> ELSE plan)
       IN /\ tasks' = Append(tasks, NewTask("configuration", input, Null, 4,
                                            "generation"))
          /\ pipelineRun' = [pipelineRun EXCEPT ![id].plan = plan,
                                                ![id].taskId = Len(tasks) + 1,
                                                ![id].pc = "executeTask"]
    /\ UNCHANGED <<deviceVars, memoryVars, documents, executions, pipelines, bulkVars, llmVars, registryVars, limiterVars>>

\* the generation task is back: throw into the catch block, or parse the
\* configuration and complete the stage
GenerationCheck(id) ==
    /\ AtStep(id, "deployment", "generation", "check")
    /\ LET generateTask == tasks[pipelineRun[id].taskId]
       IN IF TaskUnusable(generateTask)
          THEN SetPipeline(id, pipelineFailed(pipelines[id], "Configuration generation failed"),
                           [pipelineRun[id] EXCEPT !.pc = "done"])
          ELSE LET configuration == ParseConfiguration(generateTask.output)
               IN SetPipeline(id,
                              updatePipelineStage(pipelines[id], "generation", "completed",
                                  IF configuration = Undefined THEN Null ELSE configuration),
                              [pipelineRun[id] EXCEPT !.configuration = configuration,
                                                      !.pc = "advance"])
    /\ UNCHANGED <<deviceVars, memoryVars, agentVars, bulkVars, llmVars, registryVars, limiterVars>>

\* progress = 50 and the testing stage starts
TestingStart(id) ==
    /\ AtStep(id, "deployment", "generation", "advance")
    /\ SetPipeline(id, updatePipelineStage([pipelines[id] EXCEPT !.progress = 50],
                                           "testing", "running", Null),
                   [pipelineRun[id] EXCEPT !.stage = "testing", !.pc = "validate"])
    /\ UNCHANGED <<deviceVars, memoryVars, agentVars, bulkVars, llmVars, registryVars, limiterVars>>

\* NetworkAutomation.validateConfiguration runs on the configuration
TestingValidate(id) ==
    /\ AtStep(id, "deployment", "testing", "validate")
    /\ pipelineRun' = [pipelineRun EXCEPT
                          ![id].validation = validateConfiguration(pipelineRun[id].configuration),
                          ![id].pc = "check"]
    /\ UNCHANGED <<deviceVars, memoryVars, agentVars, pipelines, bulkVars, llmVars, registryVars, limiterVars>>

\* the validation result is back: the stage fails and the error is about to
\* be thrown, or the stage completes
TestingCheck(id) ==
    /\ AtStep(id, "deployment", "testing", "check")
    /\ LET validationResult == pipelineRun[id].validation
       IN IF ~validationResult.valid
          THEN SetPipeline(id, updatePipelineStage(pipelines[id], "testing", "failed",
                                                   validationResult),
                           [pipelineRun[id] EXCEPT !.pc = "throw",
                                                   !.thrown = "Validation failed"])
          ELSE SetPipeline(id, updatePipelineStage(pipelines[id], "testing", "completed",
                                                   validationResult),
                           [pipelineRun[id] EXCEPT !.pc = "advance"])
    /\ UNCHANGED <<deviceVars, memoryVars, agentVars, bulkVars, llmVars, registryVars, limiterVars>>

\* the error thrown after a stage was marked failed reaches the catch block
PipelineCatch(id) ==
    /\ id \in DOMAIN pipelines
    /\ pipelineRun[id].pc = "throw"
    /\ SetPipeline(id, pipelineFailed(pipelines[id], pipelineRun[id].thrown),
                   [pipelineRun[id] EXCEPT !.pc = "done"])
    /\ UNCHANGED <<deviceVars, memoryVars, agentVars, bulkVars, llmVars, registryVars, limiterVars>>

\* the deployment loop from position `index` on: the call for the next device
\* starts, or the loop is over and the stage completes or fails
DeploymentContinue(id, pipeline, run, index) ==
    LET deviceIds == pipeline.input.deviceIds
    IN IF index <= Len(deviceIds)
       THEN /\ SetPipeline(id, pipeline,
                           [run EXCEPT !.pc = "call", !.index = index,
                                       !.present = deviceIds[index] \in DOMAIN routers,
                                       !.pending = Null])
            /\ activeConnections' =
                   ConnectionsAfterLookup(activeConnections, routers, pipeline.sessionId,
                                          deviceIds[index])
       ELSE /\ IF allSuccessful(run.deploymentResults)
               THEN SetPipeline(id, updatePipelineStage(pipeline, "deployment", "completed",
                                                        run.deploymentResults),
                                [run EXCEPT !.pc = "advance", !.index = index,
                                            !.pending = Null])
               ELSE SetPipeline(id, updatePipelineStage(pipeline, "deployment", "failed",
                                                        run.deploymentResults),
                                [run EXCEPT !.pc = "throw", !.index = index,
                                            !.pending = Null,
                                            !.thrown = "Deployment failed for one or more devices"])
            /\ UNCHANGED activeConnections

\* progress = 75 and the deployment stage starts
DeploymentStart(id) ==
    /\ AtStep(id, "deployment", "testing", "advance")
    /\ SetPipeline(id, updatePipelineStage([pipelines[id] EXCEPT !.progress = 75],
                                           "deployment", "running", Null),
                   [pipelineRun[id] EXCEPT !.stage = "deployment", !.pc = "loop"])
    /\ UNCHANGED <<deviceVars, memoryVars, agentVars, bulkVars, llmVars, registryVars, limiterVars>>

\* the loop over the devices is entered
DeploymentEnter(id) ==
    /\ AtStep(id, "deployment", "deployment", "loop")
    /\ DeploymentContinue(id, pipelines[id], pipelineRun[id], 1)
    /\ UNCHANGED <<routers, memoryVars, agentVars, bulkVars, llmVars, registryVars, limiterVars>>

\* applyConfiguration for the current device returns
DeploymentCall(id) ==
    /\ AtStep(id, "deployment", "deployment", "call")
    /\ LET run == pipelineRun[id]
           deviceId == pipelines[id].input.deviceIds[run.index]
       IN \E reply \in RepliesFor("configuration", run.present) :
             \E r \in {applyConfiguration(routers, deviceId, run.configuration, reply,
                                          run.present)} :
                /\ routers' = r.routers
                /\ pipelineRun' = [pipelineRun EXCEPT
                                      ![id].pc = "record",
                                      ![id].pending = ResultOf(r),
                                      ![id].attempted =
                                          Append(@, [deviceId |-> deviceId,
                                                     success |-> r.success])]
    /\ UNCHANGED <<activeConnections, memoryVars, agentVars, pipelines, bulkVars, llmVars, registryVars, limiterVars>>

\* deploymentResults[deviceId] = result, and the loop goes on
DeploymentRecord(id) ==
    /\ AtStep(id, "deployment", "deployment", "record")
    /\ LET run == pipelineRun[id]
           deviceId == pipelines[id].input.deviceIds[run.index]
       IN DeploymentContinue(id, pipelines[id],
                             [run EXCEPT !.deploymentResults =
                                            SetKey(@, deviceId, run.pending)],
                             run.index + 1)
    /\ UNCHANGED <<routers, memoryVars, agentVars, bulkVars, llmVars, registryVars, limiterVars>>

\* the deployment stage is completed: the pipeline completes
DeploymentComplete(id) ==
    /\ AtStep(id, "deployment", "deployment", "advance")
    /\ LET run == pipelineRun[id]
       IN SetPipeline(id, pipelineCompleted(pipelines[id],
                              [configuration |-> run.configuration,
                               deploymentResults |-> run.deploymentResults]),
                      [run EXCEPT !.pc = "done"])
    /\ UNCHANGED <<deviceVars, memoryVars, agentVars, bulkVars, llmVars, registryVars, limiterVars>>

\* createRetrievalPipeline, with the part of executeRetrievalPipeline that
\* runs before its first await
CreateRetrievalPipeline(id, deviceIds, sessionId) ==
    LET pipeline == NewPipeline("retrieval", RetrievalStages,
                                [command |-> <<>>, deviceIds |-> deviceIds], sessionId)
        running == [pipeline EXCEPT !.status = "running", !.progress = 0]
    IN /\ id \notin DOMAIN pipelines
       /\ SetPipeline(id, updatePipelineStage(running, "discovery", "running", Null),
                      NewRun("discovery", "read"))
       /\ UNCHANGED <<deviceVars, memoryVars, agentVars, bulkVars, llmVars, registryVars, limiterVars>>

\* the routers are looked up and the discovery stage completes
DiscoveryRead(id) ==
    /\ AtStep(id, "retrieval", "discovery", "read")
    /\ LET deviceInfoMap == DeviceInfoMap(routers, pipelines[id].input.deviceIds)
       IN SetPipeline(id, updatePipelineStage(pipelines[id], "discovery", "completed",
                                              deviceInfoMap),
                      [pipelineRun[id] EXCEPT !.deviceInfoMap = deviceInfoMap,
                                              !.pc = "advance"])
    /\ UNCHANGED <<deviceVars, memoryVars, agentVars, bulkVars, llmVars, registryVars, limiterVars>>

\* progress = 33 and the extraction stage starts
ExtractionStart(id) ==
    /\ AtStep(id, "retrieval", "discovery", "advance")
    /\ SetPipeline(id, updatePipelineStage([pipelines[id] EXCEPT !.progress = 33],
                                           "extraction", "running", Null),
                   [pipelineRun[id] EXCEPT !.stage = "extraction", !.pc = "read"])
    /\ UNCHANGED <<deviceVars, memoryVars, agentVars, bulkVars, llmVars, registryVars, limiterVars>>

\* the configurations are read and the extraction stage completes
ExtractionRead(id) ==
    /\ AtStep(id, "retrieval", "extraction", "read")
    /\ LET configMap == ConfigMap(routers, pipelines[id].input.deviceIds)
       IN SetPipeline(id, updatePipelineStage(pipelines[id], "extraction", "completed",
                                              configMap),
                      [pipelineRun[id] EXCEPT !.configMap = configMap, !.pc = "advance"])
    /\ UNCHANGED <<deviceVars, memoryVars, agentVars, bulkVars, llmVars, registryVars, limiterVars>>

\* progress = 66 and the analysis stage starts
AnalysisStart(id) ==
    /\ AtStep(id, "retrieval", "extraction", "advance")
    /\ SetPipeline(id, updatePipelineStage([pipelines[id] EXCEPT !.progress = 66],
                                           "analysis", "running", Null),
                   [pipelineRun[id] EXCEPT !.stage = "analysis", !.pc = "loop"])
    /\ UNCHANGED <<deviceVars, memoryVars, agentVars, bulkVars, llmVars, registryVars, limiterVars>>

\* the analysis loop from position `index` on: devices without a running
\* configuration are skipped; the document of the next device is added, or
\* the loop is over and the stage completes
AnalysisContinue(id, pipeline, run, index) ==
    LET deviceIds == pipeline.input.deviceIds
        next == NextAnalysed(run.configMap, deviceIds, index)
    IN IF next <= Len(deviceIds)
       THEN /\ documents' = Append(documents,
                                   [deviceId |-> deviceIds[next],
                                    title |-> run.deviceInfoMap[deviceIds[next]].name,
                                    content |-> run.configMap[deviceIds[next]].runningConfig])
            /\ SetPipeline(id, pipeline,
                           [run EXCEPT !.pc = "createTask", !.index = next,
                                       !.documentId = Len(documents) + 1])
       ELSE /\ SetPipeline(id, updatePipelineStage(pipeline, "analysis", "completed",
                                                   run.analysisResults),
                           [run EXCEPT !.pc = "advance", !.index = next])
            /\ UNCHANGED documents

\* the loop over the devices is entered
AnalysisEnter(id) ==
    /\ AtStep(id, "retrieval", "analysis", "loop")
    /\ AnalysisContinue(id, pipelines[id], pipelineRun[id], 1)
    /\ UNCHANGED <<deviceVars, memoryVars, tasks, executions, bulkVars, llmVars, registryVars, limiterVars>>

\* the insights task for the current device is created
AnalysisCreateTask(id) ==
    /\ AtStep(id, "retrieval", "analysis", "createTask")
    /\ LET run == pipelineRun[id]
           config == run.configMap[pipelines[id].input.deviceIds[run.index]].runningConfig
       IN /\ tasks' = Append(tasks, NewTask("configuration", <<"Analyze">> \o config,
                                            Null, 2, NullString))
          /\ pipelineRun' = [pipelineRun EXCEPT ![id].taskId = Len(tasks) + 1,
                                                ![id].pc = "executeTask"]
    /\ UNCHANGED <<deviceVars, memoryVars, documents, executions, pipelines, bulkVars, llmVars, registryVars, limiterVars>>

\* the insights task is back: its output is recorded whatever its status,
\* and the loop goes on
AnalysisRecord(id) ==
    /\ AtStep(id, "retrieval", "analysis", "check")
    /\ LET run == pipelineRun[id]
           deviceId == pipelines[id].input.deviceIds[run.index]
           entry == [documentId |-> run.documentId,
                     insights |-> tasks[run.taskId].output, error |-> NullString]
       IN AnalysisContinue(id, pipelines[id],
                           [run EXCEPT !.analysisResults = SetKey(@, deviceId, entry)],
                           run.index + 1)
    /\ UNCHANGED <<deviceVars, memoryVars, tasks, executions, bulkVars, llmVars, registryVars, limiterVars>>

\* a retrieval that fails at its end when one of its devices is missing
RetrievalFailsOnMissingDevice(id) ==
    /\ AtStep(id, "retrieval", "analysis", "advance")
    /\ LET run == pipelineRun[id]
           deviceIds == pipelines[id].input.deviceIds
       IN IF \E k \in 1..Len(deviceIds) : deviceIds[k] \notin DOMAIN routers
          THEN SetPipeline(id, pipelineFailed(pipelines[id], "Device not found"),
                           [run EXCEPT !.pc = "done"])
          ELSE SetPipeline(id, pipelineCompleted(pipelines[id],
                                  [deviceInfoMap |-> run.deviceInfoMap,
                                   configMap |-> run.configMap,
                                   analysisResults |-> run.analysisResults]),
                           [run EXCEPT !.pc = "done"])
    /\ UNCHANGED <<deviceVars, memoryVars, agentVars, bulkVars, llmVars, registryVars, limiterVars>>

\* the analysis stage is completed: the pipeline completes
RetrievalComplete(id) ==
    /\ AtStep(id, "retrieval", "analysis", "advance")
    /\ LET run == pipelineRun[id]
       IN SetPipeline(id, pipelineCompleted(pipelines[id],
                              [deviceInfoMap |-> run.deviceInfoMap,
                               configMap |-> run.configMap,
                               analysisResults |-> run.analysisResults]),
                      [run EXCEPT !.pc = "done"])
    /\ UNCHANGED <<deviceVars, memoryVars, agentVars, bulkVars, llmVars, registryVars, limiterVars>>

NextPipeline ==
    \/ \E id \in PipelineIds, command \in PipelineCommands,
          deviceIds \in SeqsUpTo(TargetIds, MaxTargets), sessionId \in SessionIds :
          CreateDeploymentPipeline(id, command, deviceIds, sessionId)
    \/ \E id \in PipelineIds : PlanningCreateTask(id)
    \/ \E id \in PipelineIds : TaskStart(id)
    \/ \E id \in PipelineIds : TaskReply(id)
    \/ \E id \in PipelineIds : TaskFinish(id)
    \/ \E id \in PipelineIds : PlanningCheck(id)
    \/ \E id \in PipelineIds : GenerationStart(id)
    \/ \E id \in PipelineIds : GenerationCreateTask(id)
    \/ \E id \in PipelineIds : GenerationCheck(id)
    \/ \E id \in PipelineIds : TestingStart(id)
    \/ \E id \in PipelineIds : TestingValidate(id)
    \/ \E id \in PipelineIds : TestingCheck(id)
    \/ \E id \in PipelineIds : PipelineCatch(id)
    \/ \E id \in PipelineIds : DeploymentStart(id)
    \/ \E id \in PipelineIds : DeploymentEnter(id)
    \/ \E id \in PipelineIds : DeploymentCall(id)
    \/ \E id \in PipelineIds : DeploymentRecord(id)
    \/ \E id \in PipelineIds : DeploymentComplete(id)
    \/ \E id \in PipelineIds, deviceIds \in SeqsUpTo(TargetIds, MaxTargets),
          sessionId \in SessionIds :
          CreateRetrievalPipeline(id, deviceIds, sessionId)
    \/ \E id \in PipelineIds : DiscoveryRead(id)
    \/ \E id \in PipelineIds : ExtractionStart(id)
    \/ \E id \in PipelineIds : ExtractionRead(id)
    \/ \E id \in PipelineIds : AnalysisStart(id)
    \/ \E id \in PipelineIds : AnalysisEnter(id)
    \/ \E id \in PipelineIds : AnalysisCreateTask(id)
    \/ \E id \in PipelineIds : AnalysisRecord(id)
    \/ \E id \in PipelineIds : RetrievalComplete(id)
    \/ \E id \in CreatedRouterIds : CreateRouter(id)

SpecPipeline == Init /\ [][NextPipeline]_vars

\* the continuation after an await of updatePipelineStage always runs: the
\* promise is already settled and the continuation is a queued microtask
FairSpecPipeline ==
    SpecPipeline /\ WF_vars(\E id \in PipelineIds : PipelineCatch(id))

(***************************************************************************)
(* AIAgentSystem called directly                                           *)
(***************************************************************************)
\* what the task workload asks for; priority 0 stands for no priority given
TaskAgentTypes == {"configuration"}
TaskInputs == {<<"configure", "ospf">>}
TaskPriorities == {0, 2, 5}
TaskReplies == {LLMFailure, LLMSuccess(RawText(<<"router", "ospf", "1">>))}

\* an executeTask call and where it stands: waiting for the provider
\* ("llm"), waiting for storeMemory ("stored"), returned, or raised
NewExecution(taskId, pc, error) ==
    [taskId |-> taskId, pc |-> pc, reply |-> Null, error |-> error]

\* the part of AIAgentSystem.executeTask that runs before its first await:
\* the lookups, which may throw, and task.status = "running"
startExecution(ts, execs, taskId) ==
    IF taskId \notin 1..Len(ts)
    THEN [tasks |-> ts,
          executions |-> Append(execs, NewExecution(taskId, "raised", "Task not found"))]
    ELSE [tasks |-> [ts EXCEPT ![taskId] = TaskRunning(@)],
          executions |-> Append(execs, NewExecution(taskId, "llm", NullString))]

CreateNeverStarts(ts, execs, agentType, input, priority) ==
    [tasks |-> Append(ts, NewTask(agentType, input, Null, priority, NullString)),
     executions |-> execs]

\* AIAgentSystem.createTask: the task is registered, and with a priority of
\* 5 or more executeTask is called without being awaited
createTask(ts, execs, agentType, input, priority) ==
    LET task == NewTask(agentType, input, Null, priority, NullString)
        registered == Append(ts, task)
    IN IF task.priority >= ImmediatePriority
       THEN startExecution(registered, execs, Len(registered))
       ELSE [tasks |-> registered, executions |-> execs]

CreateTask(agentType, input, priority) ==
    /\ Len(tasks) < MaxTasks
    /\ \E r \in {createTask(tasks, executions, agentType, input, priority)} :
          /\ Len(r.executions) <= MaxExecutions
          /\ tasks' = r.tasks
          /\ executions' = r.executions
    /\ UNCHANGED <<deviceVars, memoryVars, documents, pipelineVars, bulkVars, llmVars, registryVars, limiterVars>>

\* an id that createTask never hands out (task ids are fresh uuids)
UnknownTaskId == MaxTasks + 1

\* executeTask called for the id of a task, or for an id no task has
ExecuteTask(taskId) ==
    /\ Len(executions) < MaxExecutions
    /\ taskId \in 1..Len(tasks) \/ taskId = UnknownTaskId
    /\ \E r \in {startExecution(tasks, executions, taskId)} :
          /\ tasks' = r.tasks
          /\ executions' = r.executions
    /\ UNCHANGED <<deviceVars, memoryVars, documents, pipelineVars, bulkVars, llmVars, registryVars, limiterVars>>

\* the provider answers execution e: processWithLLM throws and the catch
\* block fails the task, or the result is stored in the agent's memory
ExecutionReply(e) ==
    /\ e \in 1..Len(executions)
    /\ executions[e].pc = "llm"
    /\ LET taskId == executions[e].taskId
           agentId == tasks[taskId].agentId
       IN \E result \in TaskReplies :
             IF LLMUnusable(result)
             THEN /\ tasks' = [tasks EXCEPT ![taskId] =
                                  TaskFailed(@, "Failed to process with LLM")]
                  /\ executions' = [executions EXCEPT ![e].pc = "returned"]
                  /\ UNCHANGED memoryVars
             ELSE /\ StoreEffect(agentId, tasks[taskId].input, result.configuration)
                  /\ stored' = [stored EXCEPT ![agentId] = @ + 1]
                  /\ executions' = [executions EXCEPT ![e].pc = "stored",
                                                      ![e].reply = result.configuration]
                  /\ UNCHANGED <<tasks, resets, lastResult>>
    /\ UNCHANGED <<deviceVars, documents, pipelineVars, bulkVars, llmVars, registryVars, limiterVars>>

\* storeMemory has returned: the task gets its output and is completed
ExecutionFinish(e) ==
    /\ e \in 1..Len(executions)
    /\ executions[e].pc = "stored"
    /\ tasks' = [tasks EXCEPT ![executions[e].taskId] =
                    TaskCompleted(@, executions[e].reply)]
    /\ executions' = [executions EXCEPT ![e].pc = "returned", ![e].reply = Null]
    /\ UNCHANGED <<deviceVars, memoryVars, documents, pipelineVars, bulkVars, llmVars, registryVars, limiterVars>>

NextTasks ==
    \/ \E agentType \in TaskAgentTypes, input \in TaskInputs, priority \in TaskPriorities :
          CreateTask(agentType, input, priority)
    \/ \E taskId \in 1..UnknownTaskId : ExecuteTask(taskId)
    \/ \E e \in 1..MaxExecutions : ExecutionReply(e)
    \/ \E e \in 1..MaxExecutions : ExecutionFinish(e)

SpecTasks == Init /\ [][NextTasks]_vars

(***************************************************************************)
(* LLMIntegration called directly                                          *)
(***************************************************************************)
GenerationIds == {"g1", "g2"}
GenerationCommands == {<<"harden", "router">>, <<"backup">>}
GenerationDevices ==
    {<<>>, <<[name |-> "oracle-sw", ip |-> "10.0.0.9", deviceType |-> "switch"]>>}
Providers == {"groq", "openai", "ollama", "claude"}
AddedKeyIds == {"k3"}
AddedKeyProviders == {"openai", "ollama"}
DeletedKeyIds == {"1"}

\* a generateConfiguration call: its arguments, whether an active key was
\* found, where it stands ("backend": waiting for the backend, "log": the
\* generateWith... method has its result, "returned"), what became of the
\* backend call, and the result (<<>> while there is none)
Generation(command, provider, deviceInfo, keyed, pc, backend, result) ==
    [command |-> command, provider |-> provider, deviceInfo |-> deviceInfo,
     keyed |-> keyed, pc |-> pc, backend |-> backend, result |-> result]

\* generateConfiguration up to its first await that waits for a backend; a
\* groq or openai call may find that no client can be had
GenerateConfiguration(id, command, provider, deviceInfo) ==
    /\ id \notin DOMAIN generations
    /\ LET prompt == buildConfigurationPrompt(command, deviceInfo)
       IN IF getActiveKeyForProvider(apiKeys, provider) = {}
          THEN /\ generations' =
                      SetKey(generations, id,
                             Generation(command, provider, deviceInfo, FALSE, "returned", "none",
                                        <<ConfigurationResult(FALSE, <<>>, NullString,
                                                              "No active API key found")>>))
               /\ UNCHANGED usageHistory
          ELSE IF provider \in {"groq", "openai"}
          THEN /\ \E client \in BOOLEAN :
                     generations' =
                         SetKey(generations, id,
                                IF client
                                THEN Generation(command, provider, deviceInfo, TRUE,
                                                "backend", "none", <<>>)
                                ELSE Generation(command, provider, deviceInfo, TRUE,
                                                "log", "noClient",
                                                <<generateDemoResponse(prompt, <<>>)>>))
               /\ UNCHANGED usageHistory
          ELSE IF provider = "ollama"
          THEN /\ generations' =
                      SetKey(generations, id,
                             Generation(command, provider, deviceInfo, TRUE,
                                        "backend", "none", <<>>))
               /\ UNCHANGED usageHistory
          ELSE \E result \in {generateDemoResponse(command, deviceInfo)} :
                  /\ generations' =
                         SetKey(generations, id,
                                Generation(command, provider, deviceInfo, TRUE,
                                           "returned", "none", <<result>>))
                  /\ usageHistory' = logUsage(usageHistory, provider, command, result.success)
    /\ UNCHANGED <<apiKeys, deviceVars, memoryVars, agentVars, pipelineVars, bulkVars, registryVars, limiterVars>>

\* the backend replies, or fails and the demo response takes its place
BackendReply(id) ==
    /\ id \in DOMAIN generations
    /\ generations[id].pc = "backend"
    /\ \E reply \in BackendReplies :
          generations' =
              [generations EXCEPT
                  ![id].pc = "log",
                  ![id].backend = IF reply.ok THEN "answered" ELSE "failed",
                  ![id].result =
                      <<generateWithBackend(
                            generations[id].provider,
                            buildConfigurationPrompt(generations[id].command,
                                                     generations[id].deviceInfo),
                            reply)>>]
    /\ UNCHANGED <<apiKeys, usageHistory, deviceVars, memoryVars, agentVars, pipelineVars,
                   bulkVars, registryVars, limiterVars>>

\* back in generateConfiguration: the usage is logged and the result returned
GenerationReturn(id) ==
    /\ id \in DOMAIN generations
    /\ generations[id].pc = "log"
    /\ usageHistory' = logUsage(usageHistory, generations[id].provider,
                                generations[id].command, generations[id].result[1].success)
    /\ generations' = [generations EXCEPT ![id].pc = "returned"]
    /\ UNCHANGED <<apiKeys, deviceVars, memoryVars, agentVars, pipelineVars, bulkVars, registryVars, limiterVars>>

AddApiKey(id, provider, isActive) ==
    /\ id \notin DOMAIN apiKeys
    /\ apiKeys' = addApiKey(apiKeys, id, provider, isActive)
    /\ UNCHANGED <<usageHistory, generations, deviceVars, memoryVars, agentVars,
                   pipelineVars, bulkVars, registryVars, limiterVars>>

DeleteApiKey(id) ==
    /\ id \in DOMAIN apiKeys
    /\ apiKeys' = deleteApiKey(apiKeys, id)
    /\ UNCHANGED <<usageHistory, generations, deviceVars, memoryVars, agentVars,
                   pipelineVars, bulkVars, registryVars, limiterVars>>

NextGeneration ==
    \/ \E id \in GenerationIds, command \in GenerationCommands, provider \in Providers,
          deviceInfo \in GenerationDevices :
          GenerateConfiguration(id, command, provider, deviceInfo)
    \/ \E id \in GenerationIds : BackendReply(id)
    \/ \E id \in GenerationIds : GenerationReturn(id)
    \/ \E id \in AddedKeyIds, provider \in AddedKeyProviders, isActive \in {{}, {TRUE}} :
          AddApiKey(id, provider, isActive)
    \/ \E id \in DeletedKeyIds : DeleteApiKey(id)

SpecGeneration == Init /\ [][NextGeneration]_vars

(***************************************************************************)
(* The units side by side                                                  *)
(***************************************************************************)
\* The system workload uses one kind of unit in a behaviour: tasks through
\* AIAgentSystem, or a bulk operation, or a pipeline (with the tasks the
\* pipeline creates itself); routers are created alongside all of them.
\* Before any unit is started the workload may call the simulator's
\* updateRunningConfig and saveRunningConfigToStartup directly.
NoPipeline == DOMAIN pipelines = {}
NoBulkOperation == DOMAIN bulkOperations = {}
NoDirectTask == executions = <<>> /\ (tasks = <<>> \/ ~NoPipeline)

\* the running configuration a router has when nothing was applied to it
UntouchedRunningConfig(r) ==
    IF r \in DOMAIN DefaultTopology THEN DefaultTopology[r].runningConfig
    ELSE NewRouter("R-new").runningConfig

\* no configuration was written or saved yet
DevicesUntouched ==
    \A r \in DOMAIN routers :
        /\ routers[r].runningConfig = UntouchedRunningConfig(r)
        /\ routers[r].startupConfig = EmptyConfig

\* configurations handed to updateRunningConfig directly
DirectConfigs == {CfgSecureUp}

\* RouterSimulator.updateRunningConfig called for a router id, known or not
UpdateRunningConfig(routerId, config) ==
    /\ NoPipeline /\ NoBulkOperation /\ NoDirectTask
    /\ routers' = [r \in DOMAIN routers |->
                      IF r = routerId THEN updateRunningConfig(routers[r], config)
                      ELSE routers[r]]
    /\ UNCHANGED <<activeConnections, memoryVars, agentVars, pipelineVars, bulkVars, llmVars, registryVars, limiterVars>>

\* RouterSimulator.saveRunningConfigToStartup called for a router id, known
\* or not
SaveRunningConfigToStartup(routerId) ==
    /\ NoPipeline /\ NoBulkOperation /\ NoDirectTask
    /\ routers' = [r \in DOMAIN routers |->
                      IF r = routerId THEN saveRunningConfigToStartup(routers[r])
                      ELSE routers[r]]
    /\ UNCHANGED <<activeConnections, memoryVars, agentVars, pipelineVars, bulkVars, llmVars, registryVars, limiterVars>>

\* the calls that start a unit, each made only while no unit of another
\* kind exists and no direct call has changed a device
SystemCreateTask ==
    /\ NoPipeline /\ NoBulkOperation /\ DevicesUntouched
    /\ \E agentType \in TaskAgentTypes, input \in TaskInputs, priority \in TaskPriorities :
          CreateTask(agentType, input, priority)

SystemExecuteTask ==
    /\ NoPipeline /\ NoBulkOperation /\ DevicesUntouched
    /\ \E taskId \in 1..UnknownTaskId : ExecuteTask(taskId)

SystemCreateDeploymentPipeline ==
    /\ NoPipeline /\ NoBulkOperation /\ NoDirectTask /\ DevicesUntouched
    /\ \E id \in PipelineIds, command \in PipelineCommands,
          deviceIds \in SeqsUpTo(TargetIds, MaxTargets), sessionId \in SessionIds :
          CreateDeploymentPipeline(id, command, deviceIds, sessionId)

SystemCreateRetrievalPipeline ==
    /\ NoPipeline /\ NoBulkOperation /\ NoDirectTask /\ DevicesUntouched
    /\ \E id \in PipelineIds, deviceIds \in SeqsUpTo(TargetIds, MaxTargets),
          sessionId \in SessionIds :
          CreateRetrievalPipeline(id, deviceIds, sessionId)

SystemCreateBulkOperation ==
    /\ NoPipeline /\ NoBulkOperation /\ NoDirectTask /\ DevicesUntouched
    /\ \E id \in BulkIds, payload \in BulkPayloads,
          deviceIds \in SeqsUpTo(TargetIds, MaxTargets), sessionId \in SessionIds :
          CreateBulkOperation(id, payload, deviceIds, sessionId)

\* the continuations of the units: each runs only for a unit that exists
NextContinuation ==
    \/ \E e \in 1..MaxExecutions : ExecutionReply(e)
    \/ \E e \in 1..MaxExecutions : ExecutionFinish(e)
    \/ \E id \in BulkIds : BulkDeviceCall(id)
    \/ \E id \in BulkIds : BulkRecord(id)
    \/ \E id \in PipelineIds : PlanningCreateTask(id)
    \/ \E id \in PipelineIds : TaskStart(id)
    \/ \E id \in PipelineIds : TaskReply(id)
    \/ \E id \in PipelineIds : TaskFinish(id)
    \/ \E id \in PipelineIds : PlanningCheck(id)
    \/ \E id \in PipelineIds : GenerationStart(id)
    \/ \E id \in PipelineIds : GenerationCreateTask(id)
    \/ \E id \in PipelineIds : GenerationCheck(id)
    \/ \E id \in PipelineIds : TestingStart(id)
    \/ \E id \in PipelineIds : TestingValidate(id)
    \/ \E id \in PipelineIds : TestingCheck(id)
    \/ \E id \in PipelineIds : PipelineCatch(id)
    \/ \E id \in PipelineIds : DeploymentStart(id)
    \/ \E id \in PipelineIds : DeploymentEnter(id)
    \/ \E id \in PipelineIds : DeploymentCall(id)
    \/ \E id \in PipelineIds : DeploymentRecord(id)
    \/ \E id \in PipelineIds : DeploymentComplete(id)
    \/ \E id \in PipelineIds : DiscoveryRead(id)
    \/ \E id \in PipelineIds : ExtractionStart(id)
    \/ \E id \in PipelineIds : ExtractionRead(id)
    \/ \E id \in PipelineIds : AnalysisStart(id)
    \/ \E id \in PipelineIds : AnalysisEnter(id)
    \/ \E id \in PipelineIds : AnalysisCreateTask(id)
    \/ \E id \in PipelineIds : AnalysisRecord(id)
    \/ \E id \in PipelineIds : RetrievalComplete(id)

NextSystem ==
    \/ SystemCreateTask
    \/ SystemExecuteTask
    \/ SystemCreateDeploymentPipeline
    \/ SystemCreateRetrievalPipeline
    \/ SystemCreateBulkOperation
    \/ \E id \in CreatedRouterIds : CreateRouter(id)
    \/ \E routerId \in TargetIds, config \in DirectConfigs :
          UpdateRunningConfig(routerId, config)
    \/ \E routerId \in TargetIds : SaveRunningConfigToStartup(routerId)
    \/ NextContinuation

SpecSystem == Init /\ [][NextSystem]_vars

\* every continuation that is ready is eventually run, and every provider
\* and device call returns
FairSpecSystem == SpecSystem /\ WF_vars(NextContinuation)

(***************************************************************************)
(* NetworkOperations: the device registry and its connections              *)
(***************************************************************************)
\* the ids the registry calls are made for: a demo device and an added one
RegistryIds == {"1", "d5"}
AddedDeviceIds == {"d5"}

\* f without key k (Map.delete)
RemoveKey(f, k) == [x \in DOMAIN f \ {k} |-> f[x]]

\* disconnectFromDevice on the registry state: the connection is removed,
\* the registered device is set offline and the history gets an entry
disconnectFromDevice(devs, conns, history, deviceId) ==
    IF deviceId \notin conns
    THEN [devices |-> devs, connections |-> conns, history |-> history]
    ELSE [devices |-> IF deviceId \in DOMAIN devs
                      THEN [devs EXCEPT ![deviceId].status = "offline",
                                        ![deviceId].lastSeen = "Just now"]
                      ELSE devs,
          connections |-> conns \ {deviceId},
          history |-> Append(history,
                             [deviceId |-> deviceId,
                              deviceName |-> IF deviceId \in DOMAIN devs
                                             THEN devs[deviceId].name ELSE "Unknown",
                              action |-> "disconnect"])]

\* the device object a waiting connectToDevice call holds is no longer the
\* one registered under its id
Unregister(calls, deviceId) ==
    [c \in 1..Len(calls) |->
        IF calls[c].deviceId = deviceId THEN [calls[c] EXCEPT !.registered = FALSE]
        ELSE calls[c]]

\* addDevice with an id given by the caller (status || "offline")
AddDevice(id, name) ==
    /\ devices' = SetKey(devices, id, [name |-> name, status |-> "offline", lastSeen |-> "Never"])
    /\ connectCalls' = Unregister(connectCalls, id)
    /\ UNCHANGED <<deviceConnections, connectionHistory, limiterVars,
                   deviceVars, memoryVars, agentVars, pipelineVars, bulkVars, llmVars>>

DeleteDevice(deviceId) ==
    /\ deviceId \in DOMAIN devices
    /\ LET after == disconnectFromDevice(devices, deviceConnections, connectionHistory,
                                         deviceId)
       IN /\ devices' = RemoveKey(after.devices, deviceId)
          /\ deviceConnections' = after.connections
          /\ connectionHistory' = after.history
    /\ connectCalls' = Unregister(connectCalls, deviceId)
    /\ UNCHANGED <<limiterVars,
                   deviceVars, memoryVars, agentVars, pipelineVars, bulkVars, llmVars>>

\* connectToDevice up to its await: it returns at once for an unknown or a
\* connected device, and otherwise waits for the simulated connection delay
ConnectToDevice(deviceId) ==
    /\ Len(connectCalls) < MaxConnects
    /\ connectCalls' =
           Append(connectCalls,
                  IF deviceId \notin DOMAIN devices
                  THEN [deviceId |-> deviceId, pc |-> "returned", registered |-> FALSE,
                        deviceName |-> "Unknown", success |-> FALSE]
                  ELSE IF deviceId \in deviceConnections
                  THEN [deviceId |-> deviceId, pc |-> "returned", registered |-> TRUE,
                        deviceName |-> devices[deviceId].name, success |-> TRUE]
                  ELSE [deviceId |-> deviceId, pc |-> "delay", registered |-> TRUE,
                        deviceName |-> devices[deviceId].name, success |-> FALSE])
    /\ UNCHANGED <<devices, deviceConnections, connectionHistory, limiterVars,
                   deviceVars, memoryVars, agentVars, pipelineVars, bulkVars, llmVars>>

\* the delay is over: the connection is recorded, the device object the call
\* holds is set online and the history gets an entry
ConnectFinish(c) ==
    /\ c \in 1..Len(connectCalls)
    /\ connectCalls[c].pc = "delay"
    /\ LET call == connectCalls[c]
       IN /\ deviceConnections' = deviceConnections \cup {call.deviceId}
          /\ devices' = IF call.registered
                        THEN [devices EXCEPT ![call.deviceId].status = "online",
                                             ![call.deviceId].lastSeen = "Just now"]
                        ELSE devices
          /\ connectionHistory' =
                 Append(connectionHistory,
                        [deviceId |-> call.deviceId, deviceName |-> call.deviceName,
                         action |-> "connect"])
          /\ connectCalls' = [connectCalls EXCEPT ![c].pc = "returned", ![c].success = TRUE]
    /\ UNCHANGED <<limiterVars,
                   deviceVars, memoryVars, agentVars, pipelineVars, bulkVars, llmVars>>

\* disconnectFromDevice called directly
DisconnectFromDevice(deviceId) ==
    /\ deviceId \in deviceConnections
    /\ LET after == disconnectFromDevice(devices, deviceConnections, connectionHistory,
                                         deviceId)
       IN /\ devices' = after.devices
          /\ deviceConnections' = after.connections
          /\ connectionHistory' = after.history
    /\ UNCHANGED <<connectCalls, limiterVars,
                   deviceVars, memoryVars, agentVars, pipelineVars, bulkVars, llmVars>>

NextRegistry ==
    \/ \E id \in AddedDeviceIds : AddDevice(id, "Edge-05")
    \/ \E id \in RegistryIds : DeleteDevice(id)
    \/ \E id \in RegistryIds : ConnectToDevice(id)
    \/ \E c \in 1..MaxConnects : ConnectFinish(c)
    \/ \E id \in RegistryIds : DisconnectFromDevice(id)

SpecRegistry == Init /\ [][NextRegistry]_vars

(***************************************************************************)
(* The rate limiter of the HTTP server                                     *)
(***************************************************************************)
\* const WINDOW_MS = 60 * 1000
WINDOW_MS == 60000

Clients == {"10.0.0.7", "unknown"}
\* the times the clock is moved on by between two requests
ClockSteps == {30000, 60001}

\* Math.ceil(a / b) for b > 0
CeilDiv(a, b) == -((-a) \div b)

Max(a, b) == IF a >= b THEN a ELSE b

\* rateLimiter on the store: the expired entries are removed, the client's
\* entry is found or created and counted up, and the request is rejected
\* with 429 or passed on with the rate limit headers
rateLimiter(store, clientId, time) ==
    LET windowStart == time - WINDOW_MS
        kept == {key \in DOMAIN store : ~(store[key].resetTime < windowStart)}
        cleaned == [key \in kept |-> store[key]]
        found == IF clientId \in kept
                 THEN cleaned[clientId]
                 ELSE [count |-> 0, resetTime |-> time + WINDOW_MS]
        entry == [found EXCEPT !.count = @ + 1]
    IN [store |-> SetKey(cleaned, clientId, entry),
        response |->
            IF entry.count > RateLimitPerMinute
            THEN [status |-> 429, resetTime |-> entry.resetTime,
                  retryAfter |-> CeilDiv(entry.resetTime - time, 1000),
                  remaining |-> 0]
            ELSE [status |-> 200, resetTime |-> entry.resetTime,
                  retryAfter |-> 0,
                  remaining |-> Max(0, RateLimitPerMinute - entry.count)]]

\* a request of this client reaches the middleware
Request(clientId) ==
    /\ clientId \in DOMAIN rateLimitStore => rateLimitStore[clientId].count < MaxCount
    /\ \E r \in {rateLimiter(rateLimitStore, clientId, now)} :
          /\ rateLimitStore' = r.store
          /\ responses' = SetKey(responses, clientId, r.response)
    /\ UNCHANGED <<now, registryVars,
                   deviceVars, memoryVars, agentVars, pipelineVars, bulkVars, llmVars>>

\* time passes
AdvanceClock(step) ==
    /\ now + step <= MaxClock
    /\ now' = now + step
    /\ UNCHANGED <<rateLimitStore, responses, registryVars,
                   deviceVars, memoryVars, agentVars, pipelineVars, bulkVars, llmVars>>

NextLimiter ==
    \/ \E clientId \in Clients : Request(clientId)
    \/ \E step \in ClockSteps : AdvanceClock(step)

SpecLimiter == Init /\ [][NextLimiter]_vars

(***************************************************************************)
(* Properties of the saved configuration                                   *)
(***************************************************************************)

\* the step is a bulk operation's device call running a save command on r
SaveCommandStep(r) ==
    \E id \in DOMAIN bulkOperations :
        /\ bulkRun[id].pc = "call"
        /\ bulkRun'[id].pc = "record"
        /\ bulkOperations[id].operationType = "command"
        /\ IsSave(bulkOperations[id].data)
        /\ bulkOperations[id].deviceIds[bulkRun[id].index] = r

\* the step is a direct call of the simulator, outside every unit
DirectCallStep ==
    /\ NoPipeline /\ NoBulkOperation /\ NoDirectTask
    /\ UNCHANGED <<activeConnections, memoryVars, agentVars, pipelineVars, bulkVars, llmVars, registryVars, limiterVars>>

\* C11: a router's startupConfig changes only in a save step, which copies
\* the running configuration into it and leaves the running configuration
\* alone: a save command of a bulk operation on that router, or a direct
\* saveRunningConfigToStartup. Configuration-type bulk operations, pipelines,
\* tasks and updateRunningConfig never change it.
C11_StartupConfigOnlyBySave ==
    [][\A r \in DOMAIN routers \cap DOMAIN routers' :
          routers'[r].startupConfig # routers[r].startupConfig =>
             /\ routers'[r].startupConfig = routers[r].runningConfig
             /\ routers'[r].runningConfig = routers[r].runningConfig
             /\ (SaveCommandStep(r) \/ DirectCallStep)]_vars

\* a save command of a bulk operation has filled the startup configuration
\* of a router with its running configuration
C11_Witness ==
    \E id \in DOMAIN bulkOperations, r \in DOMAIN routers :
        /\ bulkOperations[id].operationType = "command"
        /\ IsSave(bulkOperations[id].data)
        /\ bulkRun[id].pc = "record"
        /\ bulkOperations[id].deviceIds[bulkRun[id].index] = r
        /\ routers[r].startupConfig = routers[r].runningConfig
        /\ routers[r].startupConfig # EmptyConfig

(***************************************************************************)
(* Properties of applyConfiguration                                        *)
(***************************************************************************)

\* applyConfiguration has just returned success for this configuration on
\* router r (the bulk operation has not recorded the result yet)
JustApplied(id, r, config) ==
    /\ bulkOperations[id].operationType = "configuration"
    /\ bulkOperations[id].data = config
    /\ bulkRun[id].pc = "record"
    /\ bulkOperations[id].deviceIds[bulkRun[id].index] = r
    /\ bulkRun[id].pending.success

\* the interfaces of that name a router has
InterfacesNamed(r, name) ==
    {k \in 1..Len(routers[r].interfaces) : routers[r].interfaces[k].name = name}

\* C12: after applyConfiguration succeeds with a configuration that has
\* `interface Gig0/1` with `ip address 10.0.9.1 255.255.255.0` and
\* `no shutdown`, the router has exactly one interface named Gig0/1, with
\* that address and mask and status `up`.
C12_NoShutdownInterfaceIsUp ==
    \A id \in DOMAIN bulkOperations, r \in DOMAIN routers :
        JustApplied(id, r, CfgSecureUp) =>
            /\ Cardinality(InterfacesNamed(r, "Gig0/1")) = 1
            /\ \A k \in InterfacesNamed(r, "Gig0/1") :
                  routers[r].interfaces[k] =
                      Iface("Gig0/1", "10.0.9.1", "255.255.255.0", "up")

(***************************************************************************)
(* Properties of tasks                                                     *)
(***************************************************************************)

\* the moves a status may make in one step
StatusMove(before, after) ==
    \/ after = before
    \/ before = "pending" /\ after = "running"
    \/ before = "running" /\ after \in {"completed", "failed"}

\* C13: under any sequence of createTask and executeTask calls, repeated
\* executeTask calls for one task included, a task's status only moves
\* pending -> running -> completed | failed, and a completed or failed task
\* never returns to running.
C13_TaskStatusMovesForward ==
    [][\A t \in 1..Len(tasks) : StatusMove(tasks[t].status, tasks'[t].status)]_vars

\* executeTask has been called for task t, by createTask or by a caller
ExecutionStarted(t) == \E e \in 1..Len(executions) : executions[e].taskId = t

\* C16: a task created with a priority below 5 (or none) is pending with a
\* null output until executeTask is called for it; a task created with a
\* priority of 5 or more has had its execution started by createTask and
\* has left pending when createTask returns.
C16_PriorityDecidesStart ==
    \A t \in 1..Len(tasks) :
        /\ tasks[t].priority < ImmediatePriority /\ ~ExecutionStarted(t) =>
               tasks[t].status = "pending" /\ tasks[t].output = Null
        /\ tasks[t].priority >= ImmediatePriority =>
               tasks[t].status # "pending" /\ ExecutionStarted(t)

\* a task of priority 5 has just been created and is running, while an
\* earlier task of low priority is still pending although another call of
\* executeTask has been made
C16_Witness ==
    /\ Len(tasks) = 2
    /\ tasks[1].priority < ImmediatePriority /\ tasks[1].status = "pending"
    /\ tasks[2].priority >= ImmediatePriority /\ tasks[2].status = "running"
    /\ Len(executions) = 2
    /\ executions[2].taskId = 2 /\ executions[2].pc = "llm"

\* the validation reply is a JSON object whose `valid` is false
SaysInvalid(reply) ==
    /\ reply.success
    /\ reply.configuration.parse = "object"
    /\ reply.configuration.valid = <<"false">>

\* C20: when the validation reply parses as an object whose `valid` is
\* false, applyConfiguration returns failure with the validation error and
\* leaves the router's runningConfig, name and interfaces as they were;
\* stated for every such reply to the call a configuration-type bulk
\* operation is waiting for.
C20_InvalidReplyRejects ==
    \A id \in DOMAIN bulkOperations :
        /\ bulkOperations[id].operationType = "configuration"
        /\ bulkRun[id].pc = "call"
        /\ bulkRun[id].present
        => \A reply \in {r \in ValidationReplies : SaysInvalid(r)} :
              LET deviceId == bulkOperations[id].deviceIds[bulkRun[id].index]
                  result == applyConfiguration(routers, deviceId, bulkOperations[id].data,
                                               reply, TRUE)
              IN /\ ~result.success
                 /\ result.error = "Configuration validation failed"
                 /\ result.routers[deviceId].runningConfig = routers[deviceId].runningConfig
                 /\ result.routers[deviceId].name = routers[deviceId].name
                 /\ result.routers[deviceId].interfaces = routers[deviceId].interfaces

\* the validation reply has text that JSON.parse rejects, or parses as an
\* object whose `valid` is true or absent
SaysNotInvalid(reply) ==
    /\ ~LLMUnusable(reply)
    /\ \/ reply.configuration.parse = "error"
       \/ reply.configuration.valid \in {<<"true">>, Undefined}

\* C21: when the validation reply cannot be parsed, or parses with `valid`
\* true or absent, applyConfiguration on an existing router returns success
\* and the router's runningConfig is the submitted text; stated for every
\* such reply to the call a configuration-type bulk operation is waiting for.
C21_LenientValidationApplies ==
    \A id \in DOMAIN bulkOperations :
        /\ bulkOperations[id].operationType = "configuration"
        /\ bulkRun[id].pc = "call"
        /\ bulkRun[id].present
        => \A reply \in {r \in ValidationReplies : SaysNotInvalid(r)} :
              LET deviceId == bulkOperations[id].deviceIds[bulkRun[id].index]
                  result == applyConfiguration(routers, deviceId, bulkOperations[id].data,
                                               reply, TRUE)
              IN /\ result.success
                 /\ result.routers[deviceId].runningConfig = bulkOperations[id].data

\* a configuration-type bulk operation is waiting for applyConfiguration on
\* a router that was found
AwaitsApply(id) ==
    /\ id \in DOMAIN bulkOperations
    /\ bulkOperations[id].operationType = "configuration"
    /\ bulkRun[id].pc = "call"
    /\ bulkRun[id].present

\* the names of the interface blocks of a text that have no well-formed
\* `ip address <ip> <mask>` line
BlocksWithoutAddress(text) ==
    LET starts == InterfaceStarts(text, 1)
    IN {WordSlashPrefix(text[starts[k] + 1]) :
           k \in {j \in 1..Len(starts) :
                    \A i \in 1..Len(InterfaceBlock(text, starts, j)) :
                        ~IpMatchAt(InterfaceBlock(text, starts, j), i)}}

\* C24: applyConfiguration with a text that has an interface block without
\* a well-formed `ip address` line succeeds whenever the validation lets it
\* through and leaves the router's entry of that interface name as it was;
\* a text without a hostname line leaves the router's name as it was.
C24_BlockWithoutAddressSkipped ==
    \A id \in DOMAIN bulkOperations :
        AwaitsApply(id)
        => \A reply \in {x \in ValidationReplies : ValidationVerdict(x) = "apply"} :
              LET r == bulkOperations[id].deviceIds[bulkRun[id].index]
                  config == bulkOperations[id].data
                  result == applyConfiguration(routers, r, config, reply, TRUE)
              IN /\ result.success
                 /\ \A name \in BlocksWithoutAddress(config) :
                       \A k \in InterfacesNamed(r, name) :
                           result.routers[r].interfaces[k] = routers[r].interfaces[k]
                 /\ HostnameMatch(config) = Null
                       => result.routers[r].name = routers[r].name

(***************************************************************************)
(* Properties of executeCommand                                            *)
(***************************************************************************)

\* a command-type bulk operation is waiting for executeCommand on a router
\* that was found
AwaitsCommand(id) ==
    /\ id \in DOMAIN bulkOperations
    /\ bulkOperations[id].operationType = "command"
    /\ bulkRun[id].pc = "call"
    /\ bulkRun[id].present

\* the router of the call the operation is waiting for
CalledDevice(id) == bulkOperations[id].deviceIds[bulkRun[id].index]

\* what executeCommand returns for the awaited call under this provider reply
CommandOutcome(id, reply) ==
    executeCommand(routers, CalledDevice(id), bulkOperations[id].data, reply, TRUE)

\* C22: executeCommand with a command starting with `show` on an existing
\* router changes no router, returns the same result whatever the provider
\* replies, and for `show running-config` that result is success with the
\* router's current runningConfig.
C22_ShowIsPureRead ==
    \A id \in DOMAIN bulkOperations :
        AwaitsCommand(id) /\ IsShow(bulkOperations[id].data)
        => \A reply \in CommandReplies :
              /\ CommandOutcome(id, reply).routers = routers
              /\ \A other \in CommandReplies :
                    ResultOf(CommandOutcome(id, other)) = ResultOf(CommandOutcome(id, reply))
              /\ Includes1(LowerText(bulkOperations[id].data), "running-config")
                    => /\ CommandOutcome(id, reply).success
                       /\ CommandOutcome(id, reply).output
                              = routers[CalledDevice(id)].runningConfig

\* C23: executeCommand with `write memory` or `copy running-config
\* startup-config` on an existing router sets startupConfig to the
\* runningConfig of that moment and leaves runningConfig and interfaces as
\* they were; a command matched as configuration-mode entry or as `show`
\* changes no router.
C23_SaveCommandSaves ==
    \A id \in DOMAIN bulkOperations :
        AwaitsCommand(id)
        => \A reply \in CommandReplies :
              LET r == CalledDevice(id)
                  after == CommandOutcome(id, reply).routers
                  command == bulkOperations[id].data
              IN /\ IsSave(command)
                    => /\ after[r].startupConfig = routers[r].runningConfig
                       /\ after[r].runningConfig = routers[r].runningConfig
                       /\ after[r].interfaces = routers[r].interfaces
                 /\ IsConfigMode(command) \/ IsShow(command) => after = routers

(***************************************************************************)
(* Properties of the lifecycle of pipelines and bulk operations            *)
(***************************************************************************)

\* C14: a pipeline and a bulk operation stay in their registry once created,
\* and their status only moves pending -> running -> completed | failed; a
\* completed or failed one never changes status again.
C14_UnitStatusMovesForward ==
    [][/\ \A id \in DOMAIN pipelines :
             /\ id \in DOMAIN pipelines'
             /\ StatusMove(pipelines[id].status, pipelines'[id].status)
       /\ \A id \in DOMAIN bulkOperations :
             /\ id \in DOMAIN bulkOperations'
             /\ StatusMove(bulkOperations[id].status, bulkOperations'[id].status)]_vars

\* a bulk operation over two devices has completed
C14_Witness ==
    \E id \in DOMAIN bulkOperations :
        /\ bulkOperations[id].status = "completed"
        /\ Len(bulkOperations[id].deviceIds) = 2
        /\ bulkRun[id].pc = "done"

(***************************************************************************)
(* Properties of failure reporting                                         *)
(***************************************************************************)

\* a failed entity carries an error and a completed one carries none
ErrorMatchesStatus(entity) ==
    /\ entity.status = "failed" => entity.error # NullString
    /\ entity.status = "completed" => entity.error = NullString

\* C15: a failure while a task, a pipeline or a bulk operation executes is
\* never raised to the caller: the entity is failed with a non-null error,
\* and in every reachable state a completed entity has a null error;
\* executeTask raises only for an unknown task id (or a missing agent).
C15_FailureRecordedNotRaised ==
    /\ \A t \in 1..Len(tasks) : ErrorMatchesStatus(tasks[t])
    /\ \A id \in DOMAIN pipelines : ErrorMatchesStatus(pipelines[id])
    /\ \A id \in DOMAIN bulkOperations : ErrorMatchesStatus(bulkOperations[id])
    /\ \A e \in 1..Len(executions) :
          executions[e].pc = "raised" => executions[e].taskId \notin 1..Len(tasks)

(***************************************************************************)
(* Properties of the create calls                                          *)
(***************************************************************************)

Terminal == {"completed", "failed"}

\* the step is the create call that registers bulk operation id
BulkCreated(id) == id \notin DOMAIN bulkOperations /\ id \in DOMAIN bulkOperations'

\* the step is the create call that registers pipeline id
PipelineCreated(id) == id \notin DOMAIN pipelines /\ id \in DOMAIN pipelines'

\* when the create call returns, no device call of the bulk operation has
\* returned
NoDeviceCallReturnedForBulk(id) ==
    /\ bulkOperations'[id].results = <<>>
    /\ bulkOperations'[id].progress = 0
    /\ bulkRun'[id].pending = Null
    /\ routers' = routers

\* when the create call returns, no provider call and no device call of the
\* pipeline has returned
NoCallReturnedForPipeline(id) ==
    /\ \A i \in 1..Len(pipelines'[id].stages) : pipelines'[id].stages[i].output = Null
    /\ pipelines'[id].output = Null
    /\ pipelineRun'[id].reply = Null
    /\ pipelineRun'[id].pending = Null
    /\ pipelineRun'[id].attempted = <<>>
    /\ tasks' = tasks
    /\ routers' = routers

\* C17 as stated: createBulkOperation, createDeploymentPipeline and
\* createRetrievalPipeline return without waiting: at return the unit is
\* not completed or failed and no device operation or provider call made
\* for it has returned, for every device list.
C17_CreateReturnsUnfinished ==
    [][/\ \A id \in BulkIds :
             BulkCreated(id) =>
                /\ bulkOperations'[id].status \notin Terminal
                /\ NoDeviceCallReturnedForBulk(id)
       /\ \A id \in PipelineIds :
             PipelineCreated(id) =>
                /\ pipelines'[id].status \notin Terminal
                /\ NoCallReturnedForPipeline(id)]_vars

\* C17 amended: at return no device operation or provider call made for
\* the unit has returned; a pipeline is running; a bulk operation is
\* running when its device list is not empty, and already completed, with
\* no result and a null error, when its device list is empty.
C17_CreateReturnsBeforeAnyCall ==
    [][/\ \A id \in BulkIds :
             BulkCreated(id) =>
                /\ NoDeviceCallReturnedForBulk(id)
                /\ IF bulkOperations'[id].deviceIds = <<>>
                   THEN /\ bulkOperations'[id].status = "completed"
                        /\ bulkOperations'[id].error = NullString
                   ELSE bulkOperations'[id].status = "running"
       /\ \A id \in PipelineIds :
             PipelineCreated(id) =>
                /\ pipelines'[id].status = "running"
                /\ NoCallReturnedForPipeline(id)]_vars

\* a bulk operation over two devices is running with no result, its first
\* device call still outstanding
C17_Witness ==
    \E id \in DOMAIN bulkOperations :
        /\ Len(bulkOperations[id].deviceIds) = 2
        /\ bulkOperations[id].status = "running"
        /\ bulkOperations[id].results = <<>>
        /\ bulkRun[id].pc = "call"
        /\ bulkRun[id].index = 1

(***************************************************************************)
(* Termination of the units                                                *)
(***************************************************************************)

\* C18: when every ready continuation is eventually run and every provider
\* and device call returns, every pipeline and bulk operation that was
\* created, and every task whose execution was started, eventually is
\* completed or failed. A unit is never removed and a task never returns
\* to pending, so this is: again and again, each pipeline and bulk
\* operation is absent or terminal, and each task is absent or not running.
C18_UnitsTerminate ==
    /\ \A id \in PipelineIds :
          []<>(id \notin DOMAIN pipelines \/ pipelines[id].status \in Terminal)
    /\ \A id \in BulkIds :
          []<>(id \notin DOMAIN bulkOperations \/ bulkOperations[id].status \in Terminal)
    /\ \A t \in 1..MaxTasks :
          []<>(t > Len(tasks) \/ tasks[t].status \in Terminal \cup {"pending"})

\* a task started by createTask has failed and was then executed again to
\* completion
C18_Witness ==
    /\ NoPipeline
    /\ \E t \in 1..Len(tasks) :
          /\ tasks[t].status = "completed"
          /\ tasks[t].error # NullString
          /\ \A e \in 1..Len(executions) : executions[e].pc = "returned"

(***************************************************************************)
(* Properties of generateConfiguration                                     *)
(***************************************************************************)

\* the call has returned after the demo response took the place of the
\* backend's answer
FellBack(id) ==
    /\ generations[id].pc = "returned"
    /\ generations[id].backend \in {"failed", "noClient"}

StageStatus(id, i) == pipelines[id].stages[i].status
StageCount(id) == Len(pipelines[id].stages)
SomeStageFailed(id) == \E i \in 1..StageCount(id) : StageStatus(id, i) = "failed"
PipelineFailedWithError(id) ==
    pipelines[id].status = "failed" /\ pipelines[id].error # NullString

\* C1: a stage has left `pending` only if every stage before it in the
\* declared stage list is `completed`
C1_StagesStartInOrder ==
    \A id \in DOMAIN pipelines :
        \A i \in 1..StageCount(id) :
            StageStatus(id, i) # "pending"
                => \A j \in 1..(i - 1) : StageStatus(id, j) = "completed"

\* the last stage of a pipeline has started
C1_Witness ==
    \E id \in DOMAIN pipelines :
        /\ StageStatus(id, StageCount(id)) = "running"
        /\ pipelineRun[id].pc \in {"call", "executeTask"}

\* C2: once a stage is `failed`, the stages never change again (every later
\* stage stays `pending`), the pipeline becomes `failed` with a non-null
\* error, and it has done so when its run is over
C2_FailedStageFailsPipeline ==
    /\ [](\A id \in DOMAIN pipelines :
            /\ \A i \in 1..StageCount(id) :
                   StageStatus(id, i) = "failed"
                       => \A j \in (i + 1)..StageCount(id) : StageStatus(id, j) = "pending"
            /\ (SomeStageFailed(id) /\ pipelineRun[id].pc = "done")
                   => PipelineFailedWithError(id))
    /\ [][\A id \in DOMAIN pipelines :
              SomeStageFailed(id) => pipelines'[id].stages = pipelines[id].stages]_vars
    /\ \A id \in PipelineIds :
           (id \in DOMAIN pipelines /\ SomeStageFailed(id))
               ~> (id \in DOMAIN pipelines /\ PipelineFailedWithError(id))

\* a pipeline whose last stage failed has ended
C2_Witness ==
    \E id \in DOMAIN pipelines :
        /\ SomeStageFailed(id)
        /\ pipelineRun[id].pc = "done"
        /\ StageStatus(id, StageCount(id)) = "failed"


IsDeployment(id) == pipelines[id].type = "deployment"
Targets(id) == pipelines[id].input.deviceIds

\* the validation result of the run, once validateConfiguration has returned
Validated(id) ==
    /\ IsDeployment(id)
    /\ pipelineRun[id].stage \in {"testing", "deployment"}
    /\ ~(pipelineRun[id].stage = "testing" /\ pipelineRun[id].pc = "validate")

\* C3: when validateConfiguration reports an issue for the generated
\* configuration, the testing stage fails, the pipeline ends failed, the
\* deployment stage stays pending, applyConfiguration is never called and no
\* running configuration changes
C3_InvalidConfigurationNotDeployed ==
    \A id \in DOMAIN pipelines :
        (Validated(id) /\ Len(pipelineRun[id].validation.issues) > 0)
            => /\ pipelineRun[id].stage = "testing"
               /\ pipelineRun[id].pc \in {"check", "throw", "done"}
               /\ pipelineRun[id].pc # "check" => StageStatus(id, 3) = "failed"
               /\ pipelineRun[id].pc = "done" => PipelineFailedWithError(id)
               /\ StageStatus(id, 4) = "pending"
               /\ pipelineRun[id].attempted = <<>>
               /\ activeConnections = <<>>
               /\ \A r \in DOMAIN routers :
                      routers[r].runningConfig = UntouchedRunningConfig(r)

\* a pipeline with an existing target has ended after validation found issues
C3_Witness ==
    \E id \in DOMAIN pipelines :
        /\ Validated(id)
        /\ Len(pipelineRun[id].validation.issues) > 0
        /\ pipelineRun[id].pc = "done"
        /\ Len(Targets(id)) >= 1
        /\ Range(Targets(id)) \subseteq DOMAIN routers

\* every applyConfiguration call of the run has returned, with success
AllApplied(id) ==
    /\ IsDeployment(id)
    /\ pipelineRun[id].stage = "deployment"
    /\ Len(Targets(id)) >= 1
    /\ Len(pipelineRun[id].attempted) = Len(Targets(id))
    /\ \A i \in 1..Len(Targets(id)) : pipelineRun[id].attempted[i].success

\* C4: with at least one target and every applyConfiguration successful, the
\* pipeline ends completed with progress 100 and every target's running
\* configuration is the generated configuration
C4_AllAppliedCompletes ==
    \A id \in DOMAIN pipelines :
        AllApplied(id)
            => /\ pipelineRun[id].pc \in {"record", "advance", "done"}
               /\ pipelineRun[id].pc = "done"
                      => /\ pipelines[id].status = "completed"
                         /\ pipelines[id].progress = 100
               /\ \A d \in Range(Targets(id)) :
                      /\ d \in DOMAIN routers
                      /\ routers[d].runningConfig = pipelineRun[id].configuration

\* a pipeline over two different devices has ended after both calls succeeded
C4_Witness ==
    \E id \in DOMAIN pipelines :
        /\ AllApplied(id)
        /\ pipelineRun[id].pc = "done"
        /\ Cardinality(Range(Targets(id))) >= 2

\* the last call made for device d
LastAttempt(id, d) ==
    LET attempted == pipelineRun[id].attempted
        last == CHOOSE i \in 1..Len(attempted) :
                    /\ attempted[i].deviceId = d
                    /\ \A j \in (i + 1)..Len(attempted) : attempted[j].deviceId # d
    IN attempted[last]

\* C5: the deployment loop calls applyConfiguration for every target in
\* order whatever the earlier results, records each result under the
\* device's id, and the pipeline ends failed exactly when a recorded result
\* is unsuccessful
C5_EveryDeviceAttempted ==
    \A id \in DOMAIN pipelines :
        (IsDeployment(id) /\ pipelineRun[id].stage = "deployment")
            => LET run == pipelineRun[id]
               IN /\ Len(run.attempted) <= Len(Targets(id))
                  /\ \A i \in 1..Len(run.attempted) :
                         run.attempted[i].deviceId = Targets(id)[i]
                  /\ run.pc \in {"advance", "throw", "done"}
                         => /\ Len(run.attempted) = Len(Targets(id))
                            /\ DOMAIN run.deploymentResults = Range(Targets(id))
                            /\ \A d \in Range(Targets(id)) :
                                   run.deploymentResults[d].success
                                       = LastAttempt(id, d).success
                  /\ run.pc = "done"
                         => (pipelines[id].status = "failed"
                                <=> \E d \in Range(Targets(id)) :
                                       ~run.deploymentResults[d].success)
                  /\ run.pc = "done" => pipelines[id].status \in {"failed", "completed"}

\* a pipeline has ended whose first device failed and whose second device
\* was called all the same and succeeded
C5_Witness ==
    \E id \in DOMAIN pipelines :
        /\ IsDeployment(id)
        /\ pipelineRun[id].stage = "deployment"
        /\ pipelineRun[id].pc = "done"
        /\ Len(pipelineRun[id].attempted) >= 2
        /\ ~pipelineRun[id].attempted[1].success
        /\ pipelineRun[id].attempted[2].success
        /\ Targets(id)[1] # Targets(id)[2]
        /\ pipelines[id].status = "failed"

\* a retrieval pipeline whose run is over
RetrievalDone(id) ==
    pipelines[id].type = "retrieval" /\ pipelineRun[id].pc = "done"

ExtractionFailed(id, d) == pipelineRun[id].configMap[d].error # NullString

\* a retrieval pipeline over two devices: extraction succeeded for the first,
\* which has a running configuration, and failed for the second
PartialExtraction(id) ==
    /\ RetrievalDone(id)
    /\ Len(Targets(id)) = 2
    /\ ~ExtractionFailed(id, Targets(id)[1])
    /\ HasConfig(pipelineRun[id].configMap, Targets(id)[1])
    /\ ExtractionFailed(id, Targets(id)[2])

\* C6 as stated: the pipeline ends completed, the first device's analysis
\* result is produced, and the analysis results hold an entry for the second
\* device whose error is set
C6_FailedExtractionHasAnalysisError ==
    \A id \in DOMAIN pipelines :
        PartialExtraction(id)
            => LET results == pipelineRun[id].analysisResults
               IN /\ pipelines[id].status = "completed"
                  /\ Targets(id)[1] \in DOMAIN results
                  /\ Targets(id)[2] \in DOMAIN results
                  /\ results[Targets(id)[2]].error # NullString

\* C6 as amended: a retrieval pipeline ends completed; a device whose
\* extraction failed has its error in the extraction results and no entry in
\* the analysis results; a device whose extraction succeeded has an analysis
\* entry, with the id of its stored document and no error, exactly when its
\* running configuration is not empty
C6_FailedExtractionSkipsAnalysis ==
    \A id \in DOMAIN pipelines :
        RetrievalDone(id)
            => LET run == pipelineRun[id]
               IN /\ pipelines[id].status = "completed"
                  /\ pipelines[id].output.analysisResults = run.analysisResults
                  /\ pipelines[id].output.configMap = run.configMap
                  /\ \A d \in Range(Targets(id)) :
                        IF ExtractionFailed(id, d)
                        THEN /\ d \notin DOMAIN run.analysisResults
                             /\ run.configMap[d].runningConfig = Undefined
                        ELSE d \in DOMAIN run.analysisResults
                                 <=> HasConfig(run.configMap, d)
                  /\ \A d \in DOMAIN run.analysisResults :
                        /\ run.analysisResults[d].error = NullString
                        /\ run.analysisResults[d].documentId \in 1..Len(documents)
                        /\ documents[run.analysisResults[d].documentId].deviceId = d
                        /\ documents[run.analysisResults[d].documentId].content
                               = run.configMap[d].runningConfig

\* such a pipeline has ended: the first device was analysed, the second has
\* its error in the extraction results
C6_Witness ==
    \E id \in DOMAIN pipelines :
        /\ PartialExtraction(id)
        /\ Targets(id)[1] \in DOMAIN pipelineRun[id].analysisResults
        /\ pipelineRun[id].configMap[Targets(id)[2]].error
               = "Failed to retrieve configuration"

\* C25: in the analysis stage of a retrieval pipeline, when the insight
\* task of a device has failed, the step that records the device's analysis
\* result gives the entry an error, and the pipeline does not fail.
C25_FailedInsightHasError ==
    [][\A id \in DOMAIN pipelines :
          /\ AtStep(id, "retrieval", "analysis", "check")
          /\ tasks[pipelineRun[id].taskId].status = "failed"
          /\ pipelineRun'[id] # pipelineRun[id]
          => LET d == pipelines[id].input.deviceIds[pipelineRun[id].index]
             IN /\ d \in DOMAIN pipelineRun'[id].analysisResults
                /\ pipelineRun'[id].analysisResults[d].error # NullString
                /\ pipelines'[id].status # "failed"]_vars

\* C26: in a deployment pipeline a completed stage keeps its status and the
\* output recorded at its completion in every later step, the step that
\* fails the pipeline included; and once the pipeline has failed, every
\* device for which applyConfiguration returned success still has the
\* generated configuration as its runningConfig.
C26_FailureKeepsOutputsAndConfigs ==
    /\ [][\A id \in DOMAIN pipelines :
             IsDeployment(id)
             => \A i \in 1..StageCount(id) :
                   StageStatus(id, i) = "completed"
                   => pipelines'[id].stages[i] = pipelines[id].stages[i]]_vars
    /\ [](\A id \in DOMAIN pipelines :
             IsDeployment(id) /\ pipelines[id].status = "failed"
             => \A k \in 1..Len(pipelineRun[id].attempted) :
                   pipelineRun[id].attempted[k].success
                   => routers[pipelineRun[id].attempted[k].deviceId].runningConfig
                          = pipelineRun[id].configuration)

\* a deployment pipeline has failed in its deployment stage after three
\* completed stages with recorded outputs, one device having taken the
\* configuration and another having refused it
C26_Witness ==
    \E id \in DOMAIN pipelines :
        /\ IsDeployment(id)
        /\ pipelines[id].status = "failed"
        /\ StageStatus(id, 4) = "failed"
        /\ \A i \in 1..3 : /\ StageStatus(id, i) = "completed"
                            /\ pipelines[id].stages[i].output # Null
        /\ \E k \in 1..Len(pipelineRun[id].attempted) :
              /\ pipelineRun[id].attempted[k].success
              /\ routers[pipelineRun[id].attempted[k].deviceId].runningConfig
                     = pipelineRun[id].configuration
        /\ \E k \in 1..Len(pipelineRun[id].attempted) :
              ~pipelineRun[id].attempted[k].success

(***************************************************************************)
(* Properties of bulk operations                                           *)
(***************************************************************************)
AllTargetsRecorded(operation) ==
    Range(operation.deviceIds) \subseteq DOMAIN operation.results

\* C7: for every bulk operation and every list of target ids, progress never
\* decreases, and progress is 100 in exactly the states in which every target
\* device has an entry in results.
C7_ProgressHundredIffAllRecorded ==
    /\ [][\A id \in DOMAIN bulkOperations :
             bulkOperations'[id].progress >= bulkOperations[id].progress]_vars
    /\ [](\A id \in DOMAIN bulkOperations :
             (bulkOperations[id].progress = 100) <=> AllTargetsRecorded(bulkOperations[id]))

\* C8: the devices are attempted in the order supplied, whatever the earlier
\* results were: each step records at most the result of the next device of
\* the list, under that device's id and leaving the other entries alone; an
\* unknown device gets its own failure; the operation is never failed, and
\* it is completed exactly when every device of the list has been attempted.
C8_AllDevicesAttemptedInOrder ==
    /\ [](\A id \in DOMAIN bulkOperations :
            LET operation == bulkOperations[id]
                run == bulkRun[id]
            IN /\ operation.status \in {"running", "completed"}
               /\ operation.status = "completed" <=>
                      run.completedDevices = Len(operation.deviceIds)
               /\ DOMAIN operation.results =
                      Range(SubSeq(operation.deviceIds, 1, run.completedDevices))
               /\ \A d \in DOMAIN operation.results :
                      /\ d \in UnknownRouterIds =>
                             /\ ~operation.results[d].success
                             /\ operation.results[d].error = "Router not found"
                      /\ (operation.results[d].success
                          /\ operation.data = <<"show", "running-config">>) =>
                             operation.results[d].output = routers[d].runningConfig)
    /\ [][\A id \in DOMAIN bulkOperations :
             LET n == bulkRun[id].completedDevices
             IN \/ /\ bulkRun'[id].completedDevices = n
                   /\ bulkOperations'[id].results = bulkOperations[id].results
                \/ /\ bulkRun'[id].completedDevices = n + 1
                   /\ bulkOperations'[id].results =
                          SetKey(bulkOperations[id].results,
                                 bulkOperations[id].deviceIds[n + 1],
                                 bulkRun[id].pending)]_vars

\* a completed operation whose first device failed and whose second succeeded
C8_Witness ==
    \E id \in DOMAIN bulkOperations :
        LET operation == bulkOperations[id]
        IN /\ operation.status = "completed"
           /\ Len(operation.deviceIds) = 2
           /\ operation.deviceIds[1] # operation.deviceIds[2]
           /\ ~operation.results[operation.deviceIds[1]].success
           /\ operation.results[operation.deviceIds[2]].success

(***************************************************************************)
(* Properties of the memory manager                                        *)
(***************************************************************************)
TotalEntries(mem, a) ==
    Len(BucketOf(mem, a).shortTerm) + Len(BucketOf(mem, a).longTerm)

EntryIds(entries) == [i \in 1..Len(entries) |-> entries[i].id[2]]

\* C9: for every agent the short-term list never holds more than 10 entries,
\* and the number of entries in short-term plus long-term never decreases in
\* a step that is not a clearShortTermMemory call.
C9_ShortTermBoundedTotalKept ==
    /\ [](\A a \in DOMAIN memories : Len(memories[a].shortTerm) <= 10)
    /\ [][\A a \in AgentIds :
             \/ TotalEntries(memories', a) >= TotalEntries(memories, a)
             \/ ClearShortTermMemory(a)]_vars

\* a full short-term list after an eviction and a consolidate or clear call
C9_Witness ==
    /\ "configuration" \in DOMAIN memories
    /\ Len(memories["configuration"].shortTerm) = 10
    /\ Len(memories["configuration"].longTerm) >= 1
    /\ resets["configuration"] >= 1

\* C10: after n > 10 stores for an agent with no clear or consolidate call,
\* the short-term list holds the 10 entries stored last, newest first, and the
\* long-term list holds exactly the n - 10 entries stored first; a store into
\* a full short-term list moves its oldest entry, and only that one, to the
\* end of the long-term list.
C10_TenNewestStayShortTerm ==
    /\ [](\A a \in DOMAIN memories :
            (resets[a] = 0 /\ stored[a] > 10) =>
                /\ EntryIds(memories[a].shortTerm) = [i \in 1..10 |-> stored[a] + 1 - i]
                /\ Len(memories[a].longTerm) = stored[a] - 10
                /\ Range(EntryIds(memories[a].longTerm)) = 1..(stored[a] - 10))
    /\ [][\A a \in DOMAIN memories :
             (stored'[a] = stored[a] + 1 /\ Len(memories[a].shortTerm) = 10) =>
                 LET short == memories[a].shortTerm
                     oldest == CHOOSE e \in Range(short) :
                                   \A f \in Range(short) : e.id[2] <= f.id[2]
                 IN /\ memories'[a].longTerm = Append(memories[a].longTerm, oldest)
                    /\ Len(memories'[a].shortTerm) = 10
                    /\ Range(memories'[a].shortTerm) =
                           (Range(short) \ {oldest})
                           \cup {memories'[a].shortTerm[1]}
                    /\ memories'[a].shortTerm[1].id[2] = stored'[a]]_vars

\* twelve stores and nothing else: two entries have been evicted
C10_Witness ==
    /\ stored["configuration"] = 12
    /\ resets["configuration"] = 0
    /\ Len(memories["configuration"].longTerm) = 2

(***************************************************************************)
(* Properties of the agent runtime                                         *)
(***************************************************************************)
\* execution e takes a step
Steps(e) == executions'[e] # executions[e]

\* C27: an execution asks the provider once: it never returns to waiting
\* for the provider.  The step in which the provider answers either fails
\* the task and stores nothing, or stores exactly one entry, with the task's
\* input and the provider's output, at the head of the executing agent's
\* short-term list and in no other agent's bucket; the following step
\* completes the task with that output.  No other step of the task system
\* changes a memory.
C27_OneCallOneEntry ==
    [][/\ \A e \in 1..Len(executions) :
             LET t == executions[e].taskId
                 a == tasks[t].agentId
             IN /\ executions[e].pc # "llm" => executions'[e].pc # "llm"
                /\ executions[e].pc = "llm" /\ Steps(e)
                   => \/ /\ executions'[e].pc = "returned"
                         /\ tasks'[t].status = "failed"
                         /\ memories' = memories
                      \/ /\ executions'[e].pc = "stored"
                         /\ TotalEntries(memories', a) = TotalEntries(memories, a) + 1
                         /\ \A b \in AgentIds \ {a} :
                               BucketOf(memories', b) = BucketOf(memories, b)
                         /\ memories'[a].shortTerm[1].input = tasks[t].input
                         /\ memories'[a].shortTerm[1].output = executions'[e].reply
                /\ executions[e].pc = "stored" /\ Steps(e)
                   => /\ tasks'[t].status = "completed"
                      /\ tasks'[t].output = executions[e].reply
       /\ (\A e \in 1..Len(executions) : ~(executions[e].pc = "llm" /\ Steps(e)))
          => memories' = memories]_vars

\* two executions have returned, one after a provider failure and one after
\* a provider reply, and the agent's memory holds the one entry
C27_Witness ==
    /\ Len(executions) = 2
    /\ \A e \in 1..2 : executions[e].pc = "returned"
    /\ executions[1].taskId # executions[2].taskId
    /\ tasks[executions[1].taskId].status = "failed"
    /\ tasks[executions[2].taskId].status = "completed"
    /\ TotalEntries(memories, "configuration") = 1
    /\ memories["configuration"].shortTerm[1].output = tasks[executions[2].taskId].output

(***************************************************************************)
(* Properties of retrieveMemories                                          *)
(***************************************************************************)
\* the agents, queries and limits retrieveMemories is examined for
RecallAgents == MemoryAgents \cup OtherAgents
RecallQueries == MemoryQueries \cup {<<"configure", "bgp">>}
RecallLimits == {2, 5}

\* every entry of an agent's bucket
Held(a) == Range(BucketOf(memories, a).shortTerm) \cup Range(BucketOf(memories, a).longTerm)

\* C28: retrieveMemories returns at most `limit` entries, newest first, each
\* of them in the agent's short-term or long-term list at that moment, and
\* the call changes no memory.
C28_RetrieveBoundedNewestFirst ==
    /\ [](\A a \in RecallAgents, query \in RecallQueries, limit \in RecallLimits :
             LET r == retrieveMemories(memories, vectorStore, a, query, limit)
             IN /\ Len(r) <= limit
                /\ \A i \in 1..(Len(r) - 1) : r[i].timestamp >= r[i + 1].timestamp
                /\ \A i \in 1..Len(r) : r[i] \in Held(a))
    /\ [][\A a \in MemoryAgents :
             RetrieveMemories(a) => memories' = memories /\ vectorStore' = vectorStore]_vars

\* a retrieval that is cut to its limit and returns short-term and
\* long-term entries, while entries cleared from the short-term list are
\* still in the vector store
C28_Witness ==
    \E a \in MemoryAgents, query \in RecallQueries :
        LET r == retrieveMemories(memories, vectorStore, a, query, 2)
            bucket == BucketOf(memories, a)
        IN /\ Len(r) = 2
           /\ r[1] \in Range(bucket.shortTerm)
           /\ r[2] \in Range(bucket.longTerm)
           /\ Cardinality(Held(a)) > 2
           /\ Len(vectorStore) > Cardinality(Held(a))

\* C29: for every query and limit, no long-term entry of an agent is left
\* out of the candidates taken from the search while the candidates include
\* a long-term entry of the same agent with a lower score, or with the same
\* score and an older timestamp.
C29_LongTermRankedByScoreThenRecency ==
    \A a \in RecallAgents, query \in RecallQueries, limit \in RecallLimits :
        LET longTerm == BucketOf(memories, a).longTerm
            hits == LongTermHits(longTerm, search(vectorStore, query, limit))
            score(x) == Score(x.input \o x.output.body, QueryTerms(query))
        IN \A x \in Range(longTerm) \ Range(hits), y \in Range(hits) :
              /\ ~(score(y) < score(x))
              /\ ~(score(y) = score(x) /\ y.timestamp < x.timestamp)

(***************************************************************************)
(* Properties of the memory buckets                                        *)
(***************************************************************************)
\* the ids of the entries of an agent's two lists, in one sequence
HeldIds(a) ==
    EntryIds(BucketOf(memories, a).shortTerm) \o EntryIds(BucketOf(memories, a).longTerm)

\* C30: no entry occurs twice in an agent's short-term and long-term lists
\* taken together, no entry is in the buckets of two agents, and a
\* consolidateMemories call leaves the agent's short-term list empty and the
\* number of its entries unchanged.
C30_EntriesHeldOnce ==
    /\ [](\A a \in DOMAIN memories :
             /\ Cardinality(Held(a)) = Len(HeldIds(a))
             /\ Cardinality(Range(HeldIds(a))) = Len(HeldIds(a))
             /\ \A b \in DOMAIN memories \ {a} :
                   {e.id : e \in Held(a)} \cap {e.id : e \in Held(b)} = {})
    /\ [][\A a \in MemoryAgents :
             ConsolidateMemories(a)
             => /\ BucketOf(memories', a).shortTerm = <<>>
                /\ TotalEntries(memories', a) = TotalEntries(memories, a)]_vars

\* two agents hold entries, and the followed agent has consolidated after
\* an eviction from a full short-term list
C30_Witness ==
    /\ \A a \in RecallAgents : a \in DOMAIN memories /\ Held(a) # {}
    /\ \E a \in MemoryAgents :
          /\ stored[a] > ShortTermCapacity
          /\ resets[a] = 1
          /\ memories[a].shortTerm = <<>>
          /\ Len(memories[a].longTerm) = stored[a]

(***************************************************************************)
(* Properties of the progress and the stages of a pipeline                 *)
(***************************************************************************)
\* the number of completed stages of a pipeline record
CompletedStages(pipeline) ==
    Cardinality({i \in 1..Len(pipeline.stages) : pipeline.stages[i].status = "completed"})

\* C31: the progress of a deployment pipeline is one of 0, 25, 50, 75 and
\* 100, and is 100 only in a completed pipeline; it never decreases, and a
\* step that changes it sets it to 25 times the number of completed stages.
C31_ProgressAtCheckpoints ==
    /\ [](\A id \in DOMAIN pipelines :
             IsDeployment(id)
             => /\ pipelines[id].progress \in {0, 25, 50, 75, 100}
                /\ pipelines[id].progress = 100 => pipelines[id].status = "completed")
    /\ [][\A id \in DOMAIN pipelines :
             IsDeployment(id)
             => /\ pipelines'[id].progress >= pipelines[id].progress
                /\ pipelines'[id].progress # pipelines[id].progress
                   => pipelines'[id].progress = 25 * CompletedStages(pipelines'[id])]_vars

\* a deployment pipeline has passed every checkpoint
C31_Witness ==
    \E id \in DOMAIN pipelines :
        /\ IsDeployment(id)
        /\ pipelines[id].status = "completed"
        /\ pipelines[id].progress = 100
        /\ CompletedStages(pipelines[id]) = 4

(***************************************************************************)
(* Properties of calls that share a device                                 *)
(***************************************************************************)
\* the device after one successful applyConfiguration of this text
Applied(router, config) ==
    updateRouterStateFromConfig(updateRunningConfig(router, config), config)

\* the device after the call of this operation, had it run alone on it
AppliedBy(router, id) ==
    IF bulkOperations[id].results[SharedDevice].success
    THEN Applied(router, bulkOperations[id].data)
    ELSE router

BothEnded == \A id \in SharedBulkIds : id \in DOMAIN bulkOperations /\ bulkRun[id].pc = "done"

\* C32: two applyConfiguration calls at work on one device at the same time
\* leave it as the two calls run one after the other, in one of the two
\* orders, would leave it; and whenever the device changes, its runningConfig
\* and the facts derived from it change together, in one step
C32_ConcurrentCallsSerialize ==
    /\ [](BothEnded /\ SharedDevice \in DOMAIN routers
            => routers[SharedDevice] \in
                   {AppliedBy(AppliedBy(DefaultTopology[SharedDevice], "b1"), "b2"),
                    AppliedBy(AppliedBy(DefaultTopology[SharedDevice], "b2"), "b1")})
    /\ [][\A r \in DOMAIN routers \cap DOMAIN routers' :
             routers'[r] # routers[r]
             => \E id \in DOMAIN bulkOperations :
                   /\ bulkRun[id].pc = "call"
                   /\ routers'[r] = Applied(routers[r], bulkOperations[id].data)]_vars

\* both calls succeeded with different texts and the device shows the work
\* of both, the text of the first operation having been written last
C32_Witness ==
    /\ BothEnded
    /\ SharedDevice \in DOMAIN routers
    /\ \A id \in SharedBulkIds : bulkOperations[id].results[SharedDevice].success
    /\ bulkOperations["b1"].data = CfgSecureUp
    /\ bulkOperations["b2"].data = CfgDescriptionOnly
    /\ routers[SharedDevice].runningConfig = CfgSecureUp
    /\ routers[SharedDevice] # Applied(DefaultTopology[SharedDevice], CfgSecureUp)

(***************************************************************************)
(* Properties of calls on a device the simulator does not know             *)
(***************************************************************************)
\* the result a caller keeps of a call that did not find its device
NotFound(result) == ~result.success /\ result.error = "Router not found"

\* C33: a device call (executeCommand or applyConfiguration) whose device is
\* not in the simulator returns a failure and leaves every device as it was;
\* a bulk operation records that failure under the device's id and still
\* ends with a result for every target; a deployment pipeline that got such
\* a result ends failed
C33_UnknownDeviceFails ==
    /\ [][/\ \A id \in DOMAIN bulkOperations \cap DOMAIN bulkOperations' :
                bulkRun[id].pc = "call" /\ bulkRun'[id].pc = "record" /\ ~bulkRun[id].present
                => NotFound(bulkRun'[id].pending) /\ routers' = routers
          /\ \A id \in DOMAIN pipelines \cap DOMAIN pipelines' :
                /\ IsDeployment(id)
                /\ pipelineRun[id].pc = "call" /\ pipelineRun'[id].pc = "record"
                /\ ~pipelineRun[id].present
                => NotFound(pipelineRun'[id].pending) /\ routers' = routers
          /\ \A id \in DOMAIN bulkOperations \cap DOMAIN bulkOperations' :
                bulkRun[id].pc = "record" /\ bulkRun'[id].pc # "record"
                => LET deviceId == bulkOperations[id].deviceIds[bulkRun[id].index]
                   IN /\ bulkOperations'[id].results[deviceId] = bulkRun[id].pending
                      /\ \A d \in DOMAIN bulkOperations[id].results \ {deviceId} :
                            bulkOperations'[id].results[d] = bulkOperations[id].results[d]]_vars
    /\ [](\A id \in DOMAIN bulkOperations :
              bulkRun[id].pc = "done"
              => \A k \in 1..Len(bulkOperations[id].deviceIds) :
                    bulkOperations[id].deviceIds[k] \in DOMAIN bulkOperations[id].results)
    /\ [](\A id \in DOMAIN pipelines :
              /\ IsDeployment(id)
              /\ pipelineRun[id].pc = "done"
              /\ \E d \in DOMAIN pipelineRun[id].deploymentResults :
                    NotFound(pipelineRun[id].deploymentResults[d])
              => pipelines[id].status = "failed")

\* a bulk operation ended with the failure of the unknown device recorded next
\* to the success of a known one
C33_Witness ==
    \E id \in DOMAIN bulkOperations :
        /\ bulkRun[id].pc = "done"
        /\ "rx" \in DOMAIN bulkOperations[id].results
        /\ NotFound(bulkOperations[id].results["rx"])
        /\ "r1" \in DOMAIN bulkOperations[id].results
        /\ bulkOperations[id].results["r1"].success

(***************************************************************************)
(* Properties of the stages of an ended pipeline                           *)
(***************************************************************************)
\* C34: an ended pipeline has no running stage: when it is completed all its
\* stages are completed, and when it is failed exactly one stage is failed,
\* the stages before it are completed and the stages after it are pending
C34_EndedPipelineHasSettledStages ==
    \A id \in DOMAIN pipelines :
        LET pipeline == pipelines[id]
            n == Len(pipeline.stages)
        IN /\ pipeline.status = "completed"
              => \A k \in 1..n : pipeline.stages[k].status = "completed"
           /\ pipeline.status = "failed"
              => \E f \in 1..n :
                    /\ pipeline.stages[f].status = "failed"
                    /\ \A k \in 1..(f - 1) : pipeline.stages[k].status = "completed"
                    /\ \A k \in (f + 1)..n : pipeline.stages[k].status = "pending"

(***************************************************************************)
(* Properties of the separation of the agents' memories                    *)
(***************************************************************************)
\* the vector store as it would be had only this agent stored memories: the
\* documents are added under the ids of the entries, one per storeMemory call
OwnDocuments(store, agentId) == SelectSeq(store, LAMBDA d : d.id[1] = agentId)

\* C35: what retrieveMemories returns for an agent does not depend on the
\* calls made for another agent: it is what it would be had the other
\* agents stored nothing
C35_RetrieveIgnoresOtherAgents ==
    \A a \in RecallAgents, query \in RecallQueries, limit \in RecallLimits :
        retrieveMemories(memories, vectorStore, a, query, limit)
            = retrieveMemories(memories, OwnDocuments(vectorStore, a), a, query, limit)

(***************************************************************************)
(* Properties of the end of a retrieval pipeline                           *)
(***************************************************************************)
IsRetrieval(id) == pipelines[id].type = "retrieval"

\* C36: a retrieval pipeline is never failed, whatever its devices and
\* whatever the provider answers, and when its run has ended it is completed
\* with its three stages completed and progress 100
C36_RetrievalNeverFails ==
    \A id \in DOMAIN pipelines :
        IsRetrieval(id)
        => /\ pipelines[id].status # "failed"
           /\ \A k \in 1..Len(pipelines[id].stages) : pipelines[id].stages[k].status # "failed"
           /\ pipelineRun[id].pc = "done"
              => /\ pipelines[id].status = "completed"
                 /\ pipelines[id].progress = 100
                 /\ Len(pipelines[id].stages) = 3
                 /\ \A k \in 1..3 : pipelines[id].stages[k].status = "completed"

\* a retrieval over an unknown device and a known one whose insight task
\* failed has ended
C36_Witness ==
    \E id \in DOMAIN pipelines :
        /\ IsRetrieval(id)
        /\ pipelineRun[id].pc = "done"
        /\ pipelines[id].input.deviceIds = <<"rx", "r1">>
        /\ \E t \in DOMAIN tasks : tasks[t].status = "failed"

(***************************************************************************)
(* Properties of a device deleted under a call                             *)
(***************************************************************************)
\* C37: when applyConfiguration returns success for a device, the device is
\* in the simulator and its runningConfig is the submitted text, also when
\* deleteRouter ran for it while the validation reply was awaited
C37_SuccessMeansConfigured ==
    [][\A id \in DOMAIN bulkOperations \cap DOMAIN bulkOperations' :
          /\ bulkOperations[id].operationType = "configuration"
          /\ bulkRun[id].pc = "call" /\ bulkRun'[id].pc = "record"
          /\ bulkRun'[id].pending.success
          => LET deviceId == bulkOperations[id].deviceIds[bulkRun[id].index]
             IN /\ deviceId \in DOMAIN routers'
                /\ routers'[deviceId].runningConfig = bulkOperations[id].data]_vars

(***************************************************************************)
(* Properties of the Interface entries of a device                         *)
(***************************************************************************)
InterfaceNames(router) == [k \in 1..Len(router.interfaces) |-> router.interfaces[k].name]

\* C38: no device ever has two Interface entries of the same name, and a step
\* that leaves a device in the simulator keeps every Interface entry it had,
\* at its place and under its name: entries are updated in place or appended
C38_InterfacesUniqueAndKept ==
    /\ [](\A r \in DOMAIN routers :
              \A i, j \in 1..Len(routers[r].interfaces) :
                  i # j => routers[r].interfaces[i].name # routers[r].interfaces[j].name)
    /\ [][\A r \in DOMAIN routers \cap DOMAIN routers' :
              /\ Len(routers'[r].interfaces) >= Len(routers[r].interfaces)
              /\ SubSeq(InterfaceNames(routers'[r]), 1, Len(routers[r].interfaces))
                     = InterfaceNames(routers[r])]_vars

\* a text with two blocks for a new interface and a text for an interface the
\* device had were applied: one entry was appended, one updated in place
C38_Witness ==
    /\ SharedDevice \in DOMAIN routers
    /\ InterfaceNames(routers[SharedDevice])
           = <<"GigabitEthernet0/0", "GigabitEthernet0/1", "Gig0/2">>
    /\ routers[SharedDevice].interfaces[3].status = "down"
    /\ routers[SharedDevice].interfaces[1].ipAddress = ""

(***************************************************************************)
(* Properties of the connections of the device registry                    *)
(***************************************************************************)
\* C39: every device id in NetworkOperations.activeConnections is the id of a
\* device in the registry, also when deleteDevice runs for a device while
\* connectToDevice for it waits on its connection delay
C39_ConnectionsAreOfRegisteredDevices == deviceConnections \subseteq DOMAIN devices

(***************************************************************************)
(* Properties of the rate limiter                                          *)
(***************************************************************************)
\* C40: a client that was rejected with 429 is admitted on its first request
\* made after the reset time reported for its window has passed, and its
\* request count starts again
C40_AdmittedAfterReset ==
    [][\A clientId \in DOMAIN responses :
          /\ responses[clientId].status = 429
          /\ now > responses[clientId].resetTime
          /\ rateLimitStore' # rateLimitStore
          /\ responses'[clientId] # responses[clientId]
          => /\ responses'[clientId].status = 200
             /\ rateLimitStore'[clientId].count = 1]_vars

====
